---- MODULE Spec2Model ----
(***************************************************************************)
(* State-machine model of the ph-news-trend ingestion pipeline:            *)
(*   - the cloud (BigQuery) storage backend with its asyncio queue,        *)
(*     consumer task and stop routine   (src/util/storage_backend.py)      *)
(*   - the embedded stores: SQLiteBackend, DuckDBBackend                   *)
(*     (src/util/storage_backend.py) and SQLiteConnection                  *)
(*     (src/util/sqlite.py)                                                *)
(*   - the orchestrator with its signal handler (src/main.py) and the      *)
(*     crawler run it starts (src/news/crawler.py)                         *)
(*   - the paging loops of the ABS-CBN, Rappler and Manila Bulletin        *)
(*     adapters and the run over all of them (src/news/apis.py)            *)
(*   - the record an adapter builds for one article (src/news/apis.py,     *)
(*     src/news/crawler.py) and html_to_markdown (src/util/tools.py)       *)
(* Each component has its own specification; the variables of the other    *)
(* components stay at their initial values.                                *)
(***************************************************************************)
EXTENDS Integers, Sequences, FiniteSets, TLC

(***************************************************************************)
(* Bounds of the model.                                                    *)
(***************************************************************************)
\* number of insert_record calls the host makes on the cloud backend
MaxInserts == 3
\* capacity of the backend's queue; the code uses asyncio.Queue(maxsize=1000),
\* the model scales the capacity down so that a full queue is reachable
QueueMaxSize == 2
\* buffer_size handed to the BigQueryBackend constructor (flush threshold)
BufferSize == 2

(***************************************************************************)
(* Values.                                                                 *)
(***************************************************************************)
\* the None object of Python, as the value of an unset global
None == "None"
\* the None object of Python, as the stop sentinel on the queue of records
Sentinel == [id |-> "None", ver |-> 0]

\* ArticleRecords: an id and the rest of the row (ver stands for the values of
\* the nine non-key columns); two of them share the id "a"
Records ==
    { [id |-> "a", ver |-> 1], [id |-> "a", ver |-> 2], [id |-> "b", ver |-> 1] }

Ids == { r.id : r \in Records }

VARIABLES
    \* ---- the event loop of the host thread
    loopRunning,      \* the loop is running (host code executes inside it)
    loopClosed,       \* loop.close() has been called
    ready,            \* FIFO of callbacks scheduled on the loop
    \* ---- BigQueryBackend
    backend,          \* "none" | "live" | "ctor_failed"
    queue,            \* self._queue: records and the None sentinel
    unfinished,       \* self._queue._unfinished_tasks
    buffer,           \* self.buffer
    isProcessing,     \* self._is_processing
    procPc,           \* position of the _process_queue task
    loadState,        \* load job in the executor: none | running | ok | failed
    stopPc,           \* position of the _stop_processor coroutine
    closeState,       \* close(): none | blocked | returned
    clientClosed,     \* self.client.close() has been called
    dedupState,       \* the SELECT DISTINCT rewrite of close(): none | ok | failed
    jobs,             \* load jobs submitted so far, each the rows it carries
    bqTable,          \* destination table: row -> number of copies
    inserted,         \* records passed to insert_record so far (history)
    \* ---- process
    storage_instance, \* module global of main.py
    exited            \* the process has exited

cloudVars ==
    << loopRunning, loopClosed, ready, backend, queue, unfinished, buffer,
       isProcessing, procPc, loadState, stopPc, closeState, clientClosed, dedupState,
       jobs, bqTable, inserted, storage_instance, exited >>

VARIABLES
    \* ---- an embedded store (SQLiteBackend, DuckDBBackend, SQLiteConnection)
    storeKind,        \* "sqlite" | "duckdb" | "sqliteconn"
    storeNameOk,      \* self.table_name is the one table name the class knows
    storeState,       \* "none" | "open" | "closed": the connection
    storeRows,        \* the table: row -> number of copies
    storeTxn,         \* the transaction open on the connection, if any
    lastCall,         \* last insert_record: "none" | "returned" | "raised"
    lastLogged,       \* last insert_record logged an error and dropped the record
    storeOps          \* number of insert_record calls so far

storeVars ==
    << storeKind, storeNameOk, storeState, storeRows, storeTxn, lastCall,
       lastLogged, storeOps >>

VARIABLES
    \* ---- main() and refresh_news_articles()
    mainPc,           \* position in main / refresh_news_articles
    useCrawler,       \* --use-crawler
    showConfig,       \* --show-config
    cfgBackend,       \* STORAGE_BACKEND
    ownStorage,       \* backend built by the run: "none" or its kind
    closeCalls,       \* close() calls on that backend
    exitCode,         \* None while running, else the exit code
    endedBy,          \* how the process ended: "none" | "return" | "signal" |
                      \* "exception" (caught and logged by main's except
                      \* clause) | "uncaught" (left main, traceback printed)
    linksLeft,        \* article links still to scrape
    attempt,          \* attempt number inside _fetch_article
    stats             \* stats dict of refresh_news_articles

mainVars ==
    << mainPc, useCrawler, showConfig, cfgBackend, ownStorage, closeCalls,
       exitCode, endedBy, linksLeft, attempt, stats >>

VARIABLES
    \* ---- the adapter runs of get_all_articles
    adapter,          \* "abscbn" | "rappler" | "manila_bulletin"
    aPc,              \* "paging" | "section_end" | "done" | "raised"
    section,          \* index into section_ids (1 for ABS-CBN)
    page,             \* number of the next page to request
    seen,             \* responses to the page requests of the current section
    emitted           \* items of the current section handed to insert_record

adapterVars == << adapter, aPc, section, page, seen, emitted >>

VARIABLES
    \* ---- the items of the page an adapter is working on
    inflight,         \* items whose detail request is awaited
    todo,             \* items whose detail request has not been started
    resolved          \* items whose detail request has returned its answer,
                      \* in the order in which the answers came

detailVars == << inflight, todo, resolved >>

VARIABLES
    \* ---- the record an adapter builds for one article
    rInput,           \* what the source's API answered for the article
    rec,              \* outcome: the record handed to insert_record, or none
    \* ---- one call of html_to_markdown (src/util/tools.py)
    hPc,              \* position inside the function
    hArg,             \* the html_content argument
    hLists,           \* unwanted_ids, unwanted_classes, unwanted_tags
    hSoup,            \* elements still in the parse tree
    hText             \* markdown_content

textVars == << rInput, rec, hPc, hArg, hLists, hSoup, hText >>

\* variables the cloud backend never touches
nonCloudVars == << storeVars, mainVars, adapterVars, detailVars, textVars >>

\* variables of the cloud backend and its event loop
cloudOnlyVars ==
    << loopRunning, loopClosed, ready, backend, queue, unfinished, buffer,
       isProcessing, procPc, loadState, stopPc, closeState, clientClosed, dedupState,
       jobs, bqTable, inserted >>

\* the other components at rest
\* sqlite3.connect / duckdb.connect: no transaction is open on the connection
NoTxn == [open |-> FALSE, rows |-> << >>]

StoreIdle ==
    /\ storeKind = "sqlite" /\ storeNameOk = TRUE /\ storeState = "none"
    /\ storeRows = << >> /\ storeTxn = NoTxn
    /\ lastCall = "none" /\ lastLogged = FALSE
    /\ storeOps = 0

MainIdle ==
    /\ mainPc = "idle" /\ useCrawler = FALSE /\ showConfig = FALSE
    /\ cfgBackend = "sqlite" /\ ownStorage = "none" /\ closeCalls = 0
    /\ exitCode = None /\ endedBy = "none" /\ linksLeft = 0 /\ attempt = 0
    /\ stats = [success |-> 0, failed |-> 0, skipped |-> 0]

AdapterIdle ==
    /\ adapter = "abscbn" /\ aPc = "idle" /\ section = 1 /\ page = 1
    /\ seen = << >> /\ emitted = << >>

\* no page is being worked on
DetailIdle == inflight = {} /\ todo = {} /\ resolved = << >>

\* no record is being built and html_to_markdown is not running
TextIdle ==
    /\ rInput = << >> /\ rec = << >>
    /\ hPc = "idle" /\ hArg = << >> /\ hLists = << >>
    /\ hSoup = {} /\ hText = << >>

vars == << cloudVars, nonCloudVars >>

(***************************************************************************)
(* Helpers on sequences and tables.                                        *)
(***************************************************************************)
RECURSIVE SeqCount(_, _)
SeqCount(s, x) ==
    IF s = << >> THEN 0
    ELSE (IF Head(s) = x THEN 1 ELSE 0) + SeqCount(Tail(s), x)

RECURSIVE AddRows(_, _)
\* WRITE_APPEND of the rows of a job to a table
AddRows(t, rows) ==
    IF rows = << >> THEN t
    ELSE AddRows([t EXCEPT ![Head(rows)] = @ + 1], Tail(rows))

\* CREATE OR REPLACE TABLE t AS SELECT DISTINCT * FROM t
SelectDistinct(t) == [r \in DOMAIN t |-> IF t[r] > 0 THEN 1 ELSE 0]

EmptyTable == [r \in Records |-> 0]

PutCallback(r) == [t |-> "put", item |-> r]
StopCallback == [t |-> "stop", item |-> Sentinel]


(***************************************************************************)
(* The host of the cloud backend: code that owns the event loop.           *)
(***************************************************************************)
\* loop.run_until_complete(<coroutine>) is entered: the loop runs
HostEnterLoop ==
    /\ ~exited /\ ~loopRunning /\ ~loopClosed
    /\ closeState # "blocked"
    /\ loopRunning' = TRUE
    /\ UNCHANGED << loopClosed, ready, backend, queue, unfinished, buffer,
                    isProcessing, procPc, loadState, stopPc, closeState,
                    clientClosed, dedupState, jobs, bqTable, inserted, storage_instance,
                    exited >>
    /\ UNCHANGED nonCloudVars

\* the coroutine handed to run_until_complete has finished: the loop stops,
\* whatever is still scheduled on it stays scheduled
HostLeaveLoop ==
    /\ ~exited /\ loopRunning
    /\ closeState # "blocked"
    /\ loopRunning' = FALSE
    /\ UNCHANGED << loopClosed, ready, backend, queue, unfinished, buffer,
                    isProcessing, procPc, loadState, stopPc, closeState,
                    clientClosed, dedupState, jobs, bqTable, inserted, storage_instance,
                    exited >>
    /\ UNCHANGED nonCloudVars

\* loop.close() once the host is done with the loop
HostCloseLoop ==
    /\ ~exited /\ ~loopRunning /\ ~loopClosed
    /\ backend = "live"
    /\ loopClosed' = TRUE
    /\ UNCHANGED << loopRunning, ready, backend, queue, unfinished, buffer,
                    isProcessing, procPc, loadState, stopPc, closeState,
                    clientClosed, dedupState, jobs, bqTable, inserted, storage_instance,
                    exited >>
    /\ UNCHANGED nonCloudVars

(***************************************************************************)
(* BigQueryBackend.__init__ and _start_processor.                          *)
(***************************************************************************)
\* asyncio.create_task needs a running loop: from synchronous code it raises
\* RuntimeError and the constructor fails; inside a running loop the consumer
\* task is created and _is_processing set
start_processor ==
    /\ ~exited /\ backend = "none"
    /\ IF loopRunning
       THEN /\ backend' = "live"
            /\ procPc' = "waiting"
            /\ isProcessing' = TRUE
       ELSE /\ backend' = "ctor_failed"
            /\ UNCHANGED << procPc, isProcessing >>
    /\ UNCHANGED << loopRunning, loopClosed, ready, queue, unfinished, buffer,
                    loadState, stopPc, closeState, clientClosed, dedupState, jobs, bqTable,
                    inserted, storage_instance, exited >>
    /\ UNCHANGED nonCloudVars

(***************************************************************************)
(* BigQueryBackend.insert_record.                                          *)
(***************************************************************************)
\* call_soon_threadsafe(self._queue.put_nowait, item): the put is only
\* scheduled; on a closed loop call_soon_threadsafe raises, which is caught and
\* logged, and the record is gone
BigQuery_insert_record(r) ==
    /\ ~exited /\ backend = "live" /\ closeState = "none"
    /\ Len(inserted) < MaxInserts
    /\ inserted' = Append(inserted, r)
    /\ ready' = IF loopClosed THEN ready ELSE Append(ready, PutCallback(r))
    /\ UNCHANGED << loopRunning, loopClosed, backend, queue, unfinished, buffer,
                    isProcessing, procPc, loadState, stopPc, closeState,
                    clientClosed, dedupState, jobs, bqTable, storage_instance, exited >>
    /\ UNCHANGED nonCloudVars

\* asyncio.Queue(maxsize=1000).full()
QueueFull_mut(q) == FALSE

QueueFull(q) == Len(q) >= QueueMaxSize

\* the loop runs the scheduled put_nowait; on a full queue put_nowait raises
\* QueueFull inside the callback (reported by the loop, the record is gone)
RunPutCallback ==
    /\ ~exited /\ loopRunning
    /\ ready # << >> /\ Head(ready).t = "put"
    /\ ready' = Tail(ready)
    /\ IF ~QueueFull(queue)
       THEN /\ queue' = Append(queue, Head(ready).item)
            /\ unfinished' = unfinished + 1
       ELSE UNCHANGED << queue, unfinished >>
    /\ UNCHANGED << loopRunning, loopClosed, backend, buffer, isProcessing,
                    procPc, loadState, stopPc, closeState, clientClosed, dedupState, jobs,
                    bqTable, inserted, storage_instance, exited >>
    /\ UNCHANGED nonCloudVars

(***************************************************************************)
(* BigQueryBackend._process_queue and _flush_buffer_async.                 *)
(***************************************************************************)
\* the `while self._is_processing` test after an item has been handled, and
\* the `finally` block behind the loop: a non-empty buffer is flushed (the load
\* job is handed to the executor), an empty one ends the task
AfterItem(buf, js, flag) ==
    IF flag
    THEN /\ procPc' = "waiting"
         /\ loadState' = "none"
         /\ jobs' = js
    ELSE IF buf # << >>
    THEN /\ procPc' = "finalflush"
         /\ loadState' = "running"
         /\ jobs' = Append(js, buf)
    ELSE /\ procPc' = "done"
         /\ loadState' = "none"
         /\ jobs' = js

BufferFull_never(buf) == FALSE

\* `if len(self.buffer) >= self.buffer_size`
BufferFull_mut(buf) == Len(buf) > BufferSize

BufferFull(buf) == Len(buf) >= BufferSize

ConsumerAtFlush_mut == "waiting"

\* `await self._flush_buffer_async()` inside the loop: the consumer stays at
\* the await until the flush has returned
ConsumerAtFlush == "flushing"

\* wait_for(self._queue.get()) returns an item.  The sentinel breaks out of
\* the loop without task_done(); a record is appended to the buffer, a full
\* buffer is flushed (task_done() follows the flush), otherwise task_done()
\* is called and the loop condition is tested again
process_queue_get ==
    /\ ~exited /\ loopRunning
    /\ procPc = "waiting" /\ queue # << >>
    /\ queue' = Tail(queue)
    /\ IF Head(queue) = Sentinel
       THEN /\ AfterItem(buffer, jobs, FALSE)
            /\ UNCHANGED << buffer, unfinished >>
       ELSE LET buf == Append(buffer, Head(queue)) IN
            /\ buffer' = buf
            /\ IF BufferFull(buf)
               THEN /\ procPc' = ConsumerAtFlush
                    /\ loadState' = "running"
                    /\ jobs' = Append(jobs, buf)
                    /\ UNCHANGED unfinished
               ELSE /\ unfinished' = unfinished - 1
                    /\ AfterItem(buf, jobs, isProcessing)
    /\ UNCHANGED << loopRunning, loopClosed, ready, backend, isProcessing,
                    stopPc, closeState, clientClosed, dedupState, bqTable, inserted,
                    storage_instance, exited >>
    /\ UNCHANGED nonCloudVars

\* wait_for times out on an empty queue: `continue`, the loop condition is
\* tested again
process_queue_timeout ==
    /\ ~exited /\ loopRunning
    /\ procPc = "waiting" /\ queue = << >>
    /\ AfterItem(buffer, jobs, isProcessing)
    /\ UNCHANGED << loopRunning, loopClosed, ready, backend, queue, unfinished,
                    buffer, isProcessing, stopPc, closeState, clientClosed, dedupState,
                    bqTable, inserted, storage_instance, exited >>
    /\ UNCHANGED nonCloudVars

\* _sync_load_to_bigquery in an executor thread: the job appends its rows to
\* the destination table (WRITE_APPEND) or fails
sync_load_to_bigquery(ok) ==
    /\ loadState = "running"
    /\ loadState' = IF ok THEN "ok" ELSE "failed"
    /\ bqTable' = IF ok THEN AddRows(bqTable, jobs[Len(jobs)]) ELSE bqTable
    /\ UNCHANGED << loopRunning, loopClosed, ready, backend, queue, unfinished,
                    buffer, isProcessing, procPc, stopPc, closeState,
                    clientClosed, dedupState, jobs, inserted, storage_instance, exited >>
    /\ UNCHANGED nonCloudVars

\* self.buffer after _flush_buffer_async: `self.buffer = []` behind the await
\* and again in the except clause
BufferAfterFlush_mut(buf, state) == IF state = "failed" THEN buf ELSE << >>

BufferAfterFlush(buf, state) == << >>

\* the await of run_in_executor returns (or raises): the buffer is cleared in
\* both cases; after a flush from the loop, task_done() and the loop test
flush_buffer_done ==
    /\ ~exited /\ loopRunning
    /\ procPc \in {"flushing", "finalflush"}
    /\ loadState \in {"ok", "failed"}
    /\ buffer' = BufferAfterFlush(buffer, loadState)
    /\ IF procPc = "flushing"
       THEN /\ unfinished' = unfinished - 1
            /\ AfterItem(BufferAfterFlush(buffer, loadState), jobs,
                         isProcessing)
       ELSE /\ procPc' = "done"
            /\ loadState' = "none"
            /\ UNCHANGED << unfinished, jobs >>
    /\ UNCHANGED << loopRunning, loopClosed, ready, backend, queue,
                    isProcessing, stopPc, closeState, clientClosed, dedupState, bqTable,
                    inserted, storage_instance, exited >>
    /\ UNCHANGED nonCloudVars

(***************************************************************************)
(* BigQueryBackend.close and _stop_processor.                              *)
(***************************************************************************)
\* the tail of close(): the SELECT DISTINCT rewrite (run_query swallows its
\* own failure) and self.client.close()
CloseTail(dedupOk) ==
    /\ bqTable' = IF dedupOk THEN SelectDistinct(bqTable) ELSE bqTable
    /\ clientClosed' = TRUE
    /\ dedupState' = IF dedupOk THEN "ok" ELSE "failed"
    /\ closeState' = "returned"

\* close(), as far as it runs without waiting:
\*   closed loop  - run_until_complete raises, the except branch only logs;
\*   running loop - ensure_future schedules _stop_processor and close() goes on;
\*   stopped loop - run_until_complete(_stop_processor()) blocks the caller
CloseCall(dedupOk) ==
    IF loopClosed
    THEN /\ CloseTail(dedupOk)
         /\ UNCHANGED << loopRunning, ready, stopPc >>
    ELSE IF loopRunning
    THEN /\ ready' = Append(ready, StopCallback)
         /\ stopPc' = "scheduled"
         /\ CloseTail(dedupOk)
         /\ UNCHANGED loopRunning
    ELSE /\ ready' = Append(ready, StopCallback)
         /\ stopPc' = "scheduled"
         /\ loopRunning' = TRUE
         /\ closeState' = "blocked"
         /\ UNCHANGED << bqTable, clientClosed, dedupState >>

BigQuery_close ==
    /\ ~exited /\ backend = "live" /\ closeState = "none"
    /\ \E dedupOk \in BOOLEAN : CloseCall(dedupOk)
    /\ UNCHANGED << loopClosed, backend, queue, unfinished, buffer,
                    isProcessing, procPc, loadState, jobs, inserted,
                    storage_instance, exited >>
    /\ UNCHANGED nonCloudVars

\* _stop_processor, one step per suspension point:
\*   scheduled - clear _is_processing, put the sentinel (waits on a full queue)
\*   putting   - the put of the sentinel goes through
\*   joining   - self._queue.join() returns once no task is unfinished
\*   awaiting  - the consumer task has finished; when close() is blocked in
\*               run_until_complete it now goes on with its tail
stop_processor ==
    /\ ~exited /\ loopRunning
    /\ CASE stopPc = "scheduled" ->
              /\ ready # << >> /\ Head(ready).t = "stop"
              /\ ready' = Tail(ready)
              /\ isProcessing' = FALSE
              /\ IF ~QueueFull(queue)
                 THEN /\ queue' = Append(queue, Sentinel)
                      /\ unfinished' = unfinished + 1
                      /\ stopPc' = "joining"
                 ELSE /\ stopPc' = "putting"
                      /\ UNCHANGED << queue, unfinished >>
              /\ UNCHANGED << loopRunning, bqTable, clientClosed, dedupState, closeState >>
         [] stopPc = "putting" ->
              /\ ~QueueFull(queue)
              /\ queue' = Append(queue, Sentinel)
              /\ unfinished' = unfinished + 1
              /\ stopPc' = "joining"
              /\ UNCHANGED << ready, isProcessing, loopRunning, bqTable,
                              clientClosed, dedupState, closeState >>
         [] stopPc = "joining" ->
              /\ unfinished = 0
              /\ stopPc' = "awaiting"
              /\ UNCHANGED << ready, isProcessing, queue, unfinished,
                              loopRunning, bqTable, clientClosed, dedupState, closeState >>
         [] stopPc = "awaiting" ->
              /\ procPc = "done"
              /\ stopPc' = "done"
              /\ IF closeState = "blocked"
                 THEN /\ loopRunning' = FALSE
                      /\ \E dedupOk \in BOOLEAN : CloseTail(dedupOk)
                 ELSE UNCHANGED << loopRunning, bqTable, clientClosed, dedupState,
                                   closeState >>
              /\ UNCHANGED << ready, isProcessing, queue, unfinished >>
         [] OTHER -> FALSE
    /\ UNCHANGED << loopClosed, backend, buffer, procPc, loadState, jobs,
                    inserted, storage_instance, exited >>
    /\ UNCHANGED nonCloudVars

(***************************************************************************)
(* main.signal_handler on SIGINT / SIGTERM, for a process hosting the      *)
(* cloud backend.                                                          *)
(***************************************************************************)
\* `if storage_instance: storage_instance.close()`, then sys.exit(0).  No code
\* assigns the global, so the branch that closes is never taken.
signal_handler_cloud ==
    /\ ~exited
    /\ IF storage_instance # None
       THEN /\ backend = "live" /\ closeState = "none"
            /\ \E dedupOk \in BOOLEAN : CloseCall(dedupOk)
            /\ exited' = (closeState' = "returned")
       ELSE /\ exited' = TRUE
            /\ UNCHANGED << loopRunning, ready, stopPc, closeState, bqTable,
                            clientClosed, dedupState >>
    /\ UNCHANGED << loopClosed, backend, queue, unfinished, buffer,
                    isProcessing, procPc, loadState, jobs, inserted,
                    storage_instance >>
    /\ UNCHANGED nonCloudVars

(***************************************************************************)
(* Specification of the cloud backend inside its host process.             *)
(***************************************************************************)
\* the cloud backend before its construction
CloudIdle ==
    /\ loopClosed = FALSE
    /\ ready = << >>
    /\ backend = "none"
    /\ queue = << >>
    /\ unfinished = 0
    /\ buffer = << >>
    /\ isProcessing = FALSE
    /\ procPc = "none"
    /\ loadState = "none"
    /\ stopPc = "none"
    /\ closeState = "none"
    /\ clientClosed = FALSE
    /\ dedupState = "none"
    /\ jobs = << >>
    /\ bqTable = EmptyTable
    /\ inserted = << >>

InitCloud ==
    /\ loopRunning \in BOOLEAN
    /\ CloudIdle
    /\ storage_instance = None
    /\ exited = FALSE
    /\ StoreIdle /\ MainIdle /\ AdapterIdle /\ DetailIdle /\ TextIdle

NextCloud ==
    \/ HostEnterLoop
    \/ HostLeaveLoop
    \/ HostCloseLoop
    \/ start_processor
    \/ \E r \in Records : BigQuery_insert_record(r)
    \/ RunPutCallback
    \/ process_queue_get
    \/ process_queue_timeout
    \/ \E ok \in BOOLEAN : sync_load_to_bigquery(ok)
    \/ flush_buffer_done
    \/ BigQuery_close
    \/ stop_processor
    \/ signal_handler_cloud

SpecCloud == InitCloud /\ [][NextCloud]_vars

(***************************************************************************)
(* Properties of the cloud backend.                                        *)
(***************************************************************************)
RECURSIVE JobCount(_, _)
\* number of copies of record r carried by the load jobs js
JobCount(js, r) ==
    IF js = << >> THEN 0 ELSE SeqCount(Head(js), r) + JobCount(Tail(js), r)

RECURSIVE JobsTotal(_)
JobsTotal(js) == IF js = << >> THEN 0 ELSE Len(Head(js)) + JobsTotal(Tail(js))

\* every record passed to insert_record has been submitted in a load job
AllSubmitted == \A r \in Records : JobCount(jobs, r) = SeqCount(inserted, r)

\* no record waits in a scheduled put, in the queue or in the buffer
NothingLeftBehind ==
    /\ \A i \in 1..Len(ready) : ready[i].t # "put"
    /\ \A i \in 1..Len(queue) : queue[i] = Sentinel
    /\ buffer = << >>

\* rows of the destination table with a given id
RowsWithId(t, id) == { r \in DOMAIN t : r.id = id /\ t[r] > 0 }

RECURSIVE RowCount(_, _)
RowCount(t, rs) ==
    IF rs = {} THEN 0
    ELSE LET r == CHOOSE x \in rs : TRUE IN t[r] + RowCount(t, rs \ {r})

\* steps of the event loop and of the executor thread
CloudLoopStep ==
    \/ RunPutCallback
    \/ process_queue_get
    \/ process_queue_timeout
    \/ \E ok \in BOOLEAN : sync_load_to_bigquery(ok)
    \/ flush_buffer_done
    \/ stop_processor

\* C1 (as claimed, cloud backend): after close(), two records inserted with the
\* same id and different field values, both loaded, leave exactly one row for
\* that id, the row of the second insert.
C1_UpsertByIdCloud ==
    closeState = "returned" =>
        \A i, j \in 1..Len(inserted) :
            ( /\ i < j
              /\ inserted[i].id = inserted[j].id
              /\ inserted[i] # inserted[j]
              /\ bqTable[inserted[i]] > 0 /\ bqTable[inserted[j]] > 0 )
            => /\ RowCount(bqTable, RowsWithId(bqTable, inserted[j].id)) = 1
               /\ bqTable[inserted[j]] = 1

\* C2 (as claimed): when close() has returned, every record passed to
\* insert_record has been submitted in a load job and none is left in the
\* queue or in the buffer.
C2_CloseFlushesEverything ==
    closeState = "returned" => AllSubmitted /\ NothingLeftBehind

\* C3 (as claimed): after a SIGINT/SIGTERM has ended the process, the handler
\* has closed the cloud backend and every inserted record is in the
\* destination table.
C3_SignalFlushesCloud ==
    (exited /\ inserted # << >>) =>
        /\ closeState = "returned"
        /\ \A i \in 1..Len(inserted) : bqTable[inserted[i]] > 0

\* C8: once exactly buffer_size records have been inserted and the consumer has
\* taken all of them and waits on the queue again, with close() never called,
\* exactly one load job has been submitted, it carries those records, and the
\* buffer is empty.
C8_FlushAtThreshold ==
    ( /\ closeState = "none"
      /\ Len(inserted) = BufferSize
      /\ procPc = "waiting"
      /\ Len(buffer) + JobsTotal(jobs) = BufferSize )
    => /\ Len(jobs) = 1
       /\ jobs[1] = inserted
       /\ buffer = << >>

C8_Witness ==
    /\ closeState = "none"
    /\ Len(inserted) = BufferSize
    /\ procPc = "waiting"
    /\ Len(jobs) = 1 /\ jobs[1] = inserted
    /\ buffer = << >> /\ queue = << >> /\ ready = << >>

\* C9 (as claimed): after buffer_size - 1 records and close(), exactly one load
\* job has been submitted by the time close() returns, and, however close()
\* went, once the consumer has stopped that one job carries those records.
C9_FinalFlushOnClose ==
    ( /\ Len(inserted) = BufferSize - 1
      /\ \/ closeState = "returned"
         \/ closeState = "blocked" /\ procPc = "done" )
    => /\ Len(jobs) = 1
       /\ jobs[1] = inserted

\* C10 (as claimed): a close() that waits for the stop routine comes back:
\* while it is blocked, the event loop always has a step to run.
C10_CloseReturns ==
    (closeState = "blocked" /\ ~exited) => ENABLED CloudLoopStep

\* C17: insert_record never waits: whenever the host can call it (backend built,
\* close() not called), with the queue empty or at capacity and with or without
\* a load job in progress, the call can be taken at once for every record; and
\* the queue never holds more items than its capacity.
C17_InsertNeverWaits ==
    /\ Len(queue) <= QueueMaxSize
    /\ ( /\ ~exited /\ backend = "live" /\ closeState = "none"
         /\ Len(inserted) < MaxInserts )
       => \A r \in Records : ENABLED BigQuery_insert_record(r)

\* the queue is at capacity and the put of one more inserted record has run
C17_Witness ==
    /\ Len(queue) = QueueMaxSize
    /\ \A i \in 1..Len(queue) : queue[i] # Sentinel
    /\ Len(inserted) = QueueMaxSize + 1
    /\ ready = << >> /\ buffer = << >> /\ jobs = << >>
    /\ procPc = "waiting" /\ closeState = "none"

\* copies of record r that wait in a scheduled put, in the queue or in the
\* buffer (during a flush the buffer is the batch of the last load job)
Pending(r) ==
    SeqCount(ready, PutCallback(r)) + SeqCount(queue, r)
        + (IF procPc \in {"flushing", "finalflush"} THEN 0
           ELSE SeqCount(buffer, r))

C18_State ==
    /\ \A r \in Records : JobCount(jobs, r) + Pending(r) <= SeqCount(inserted, r)
    /\ procPc = "waiting" => Len(buffer) < BufferSize

C18_Step ==
    (loadState = "failed" /\ procPc' # procPc) =>
        /\ buffer' = << >>
        /\ procPc' = IF procPc = "flushing" /\ isProcessing
                     THEN "waiting" ELSE "done"

\* C18: when a load job has failed, the flush leaves the buffer empty and the
\* consumer goes back to waiting on the queue (or ends, when it was stopping);
\* no record is carried by more load jobs than the times it was inserted, so
\* the failed batch is never submitted again; and a consumer that waits on the
\* queue never holds a full buffer, so later records go out in later jobs.
C18_FailedBatchDropped == []C18_State /\ [][C18_Step]_vars

\* a first load job of buffer_size records failed, and a second load job has
\* put its rows, and only its rows, into the destination table
C18_Witness ==
    /\ Len(jobs) = 2 /\ Len(jobs[1]) = BufferSize
    /\ procPc = "finalflush" /\ loadState = "ok"
    /\ RowCount(bqTable, Records) = Len(jobs[2])

\* C19 (as claimed): the client is closed only when the consumer task has
\* ended and no load job is in progress, so that no load job is submitted or
\* running once the client is closed.
C19_ClientClosedLast ==
    clientClosed => procPc = "done" /\ loadState # "running"

\* C20 (as claimed): the SELECT DISTINCT rewrite runs when the consumer task
\* has ended and its last load job is over, and once close() has returned
\* after a successful rewrite no row of the destination table has a copy.
C20_NoDuplicatesAfterClose ==
    /\ dedupState # "none" => procPc = "done" /\ loadState # "running"
    /\ (closeState = "returned" /\ dedupState = "ok")
           => \A r \in Records : bqTable[r] <= 1

\* C31 (as claimed): while a load job is in progress, close() has not been
\* called and records wait in the queue, the consumer can take the next record from the queue: the load job
\* does not hold up the draining of the queue.
C31_DrainsDuringLoad ==
    ( /\ ~exited /\ loopRunning
      /\ closeState = "none" /\ loadState = "running"
      /\ queue # << >> )
    => ENABLED process_queue_get

C33_State ==
    loadState = "running" => procPc \in {"flushing", "finalflush"}

C33_Step ==
    /\ jobs' # jobs =>
           /\ loadState # "running" /\ loadState' = "running"
           /\ jobs' = Append(jobs, buffer')
           /\ process_queue_get \/ process_queue_timeout \/ flush_buffer_done
    /\ buffer' # buffer =>
           \/ process_queue_get /\ buffer' = Append(buffer, Head(queue))
           \/ flush_buffer_done /\ buffer' = << >>
    /\ (BigQuery_close \/ \E r \in Records : BigQuery_insert_record(r))
           => buffer' = buffer /\ jobs' = jobs

\* C33: a load job is submitted only by a step of the consumer task and only
\* when no load job is running, and while a job runs the consumer is at the
\* await of that flush, so at most one load job is in progress; the buffer
\* changes only by the consumer appending the record it took from the queue or
\* by the flush clearing it; insert_record and close() leave the buffer and the
\* load jobs as they are.
C33_SingleConsumer == []C33_State /\ [][C33_Step]_vars

\* after a first load job, the final flush of a second batch is in progress
C33_Witness ==
    /\ Len(jobs) = 2 /\ loadState = "running"
    /\ procPc = "finalflush" /\ buffer = jobs[2]
    /\ closeState # "none"

\* C34: the buffer never holds more than buffer_size records, it holds fewer
\* than buffer_size whenever the consumer waits on the queue, and the copies of
\* a record carried by the submitted load jobs, together with those still
\* waiting ahead of the buffer or in it, are never more than the times the
\* record was inserted: a record taken from the queue goes into one load job
\* at most.
C34_BufferBounded ==
    /\ Len(buffer) <= BufferSize
    /\ procPc = "waiting" => Len(buffer) < BufferSize
    /\ \A r \in Records :
           /\ JobCount(jobs, r) <= SeqCount(inserted, r)
           /\ JobCount(jobs, r) + Pending(r) <= SeqCount(inserted, r)

\* the buffer has reached buffer_size, its load job is in progress and a
\* further record waits in the queue
C34_Witness ==
    /\ Len(buffer) = BufferSize /\ procPc = "flushing"
    /\ Len(jobs) = 1 /\ jobs[1] = buffer
    /\ queue # << >> /\ closeState = "none"

\* C35 (as claimed): while the consumer runs on an open loop and close() has
\* not been called, every record passed to insert_record is on its way to the
\* buffer or has been through it: each copy inserted waits in a scheduled put,
\* in the queue or in the buffer, or is carried by a load job; none is dropped.
C35_NoRecordDropped ==
    (isProcessing /\ closeState = "none" /\ ~loopClosed) =>
        \A r \in Records :
            SeqCount(inserted, r) = JobCount(jobs, r) + Pending(r)

\* C40 (as claimed): once the constructor of the cloud backend has been
\* called, with or without a running event loop, the backend exists with its
\* consumer task, and _is_processing is true until close() is called.
C40_ConstructorStartsConsumer ==
    backend # "none" =>
        /\ backend = "live"
        /\ procPc # "none"
        /\ closeState = "none" => isProcessing

(***************************************************************************)
(* The embedded stores: SQLiteBackend and DuckDBBackend                    *)
(* (src/util/storage_backend.py) and SQLiteConnection (src/util/sqlite.py).*)
(***************************************************************************)
MaxStoreOps == 3

\* a NULL id: item.get('id') of a record without that key
NULL == "NULL"

\* records handed to insert_record.  shape "nokey": the dict has no 'id' key;
\* shape "unbindable": a field holds a value the driver cannot bind
StoreItems ==
    [id : Ids, ver : 1..2, shape : {"ok"}]
        \cup { [id |-> NULL, ver |-> 1, shape |-> "nokey"],
               [id |-> "a", ver |-> 1, shape |-> "unbindable"] }

StoreRowSet == [id : Ids \cup {NULL}, ver : 1..2]

EmptyStore == [r \in StoreRowSet |-> 0]

\* variables the embedded stores never touch
nonStoreVars == << cloudVars, mainVars, adapterVars, detailVars, textVars >>

\* INSERT OR REPLACE / ON CONFLICT (id) DO UPDATE: the row takes the place of
\* the row with the same id.  A NULL id conflicts with nothing.
Upsert(t, row) ==
    [r \in StoreRowSet |->
        IF r = row THEN (IF row.id = NULL THEN t[r] + 1 ELSE 1)
        ELSE IF r.id = row.id /\ row.id # NULL THEN 0
        ELSE t[r]]

\* the table as the statements of the connection see it
View(rows, txn) == IF txn.open THEN txn.rows ELSE rows

\* cursor.execute of the INSERT OR REPLACE on a sqlite3 connection: the driver
\* begins a transaction when none is open, then binds the values; the row is
\* written in the transaction when the values bind
Execute(rows, txn, row, binds) ==
    [open |-> TRUE,
     rows |-> IF binds THEN Upsert(View(rows, txn), row) ELSE View(rows, txn)]

\* conn.commit(): what the open transaction wrote becomes the table
Commit_mut(rows, txn) == [rows |-> rows, txn |-> txn]

Commit(rows, txn) == [rows |-> View(rows, txn), txn |-> NoTxn]

\* the table name of the configuration: os.getenv('TABLE_NAME', 'articles_raw')
\* (env is the value of TABLE_NAME, None when it is unset)
ConfigTableName(env) == IF env = None THEN "articles_raw" ELSE env

\* `if self.table_name == table_name`, with the module global
\* table_name = os.getenv('TABLE_NAME') of storage_backend.py
TableNameKnown(name, env) == name = env

\* __init__ of the three classes: connect, then create the table; an unknown
\* table name raises ValueError inside the try, which is logged and swallowed
Store_init ==
    /\ storeState = "none"
    /\ storeState' = "open"
    /\ storeRows' = EmptyStore
    /\ UNCHANGED << storeKind, storeNameOk, storeTxn, lastCall, lastLogged,
                    storeOps >>
    /\ UNCHANGED nonStoreVars

\* the statement inside the try of SQLiteBackend.insert_record executes
SQLiteExecOk(item) ==
    storeNameOk /\ storeState = "open" /\ item.shape # "unbindable"

\* SQLiteBackend.insert_record: try execute / except log / finally commit.
\* commit() on a closed connection raises out of the finally clause.
SQLite_insert_record(item) ==
    /\ storeKind = "sqlite" /\ storeState # "none"
    /\ storeOps < MaxStoreOps
    /\ storeOps' = storeOps + 1
    /\ LET txn == IF storeNameOk /\ storeState = "open"
                  THEN Execute(storeRows, storeTxn,
                               [id |-> item.id, ver |-> item.ver],
                               item.shape # "unbindable")
                  ELSE storeTxn
           done == IF storeState = "closed"
                   THEN [rows |-> storeRows, txn |-> txn]
                   ELSE Commit(storeRows, txn)
       IN  storeRows' = done.rows /\ storeTxn' = done.txn
    /\ lastLogged' = ~SQLiteExecOk(item)
    /\ lastCall' = IF storeState = "closed" THEN "raised" ELSE "returned"
    /\ UNCHANGED << storeKind, storeNameOk, storeState >>
    /\ UNCHANGED nonStoreVars

\* the statement inside the try of DuckDBBackend.insert_record executes; the
\* PRIMARY KEY column rejects a NULL id
DuckDBExecOk(item) ==
    /\ storeNameOk /\ storeState = "open"
    /\ item.shape # "unbindable" /\ item.id # NULL

\* DuckDBBackend.insert_record: try execute / except log, nothing after it
DuckDB_insert_record(item) ==
    /\ storeKind = "duckdb" /\ storeState # "none"
    /\ storeOps < MaxStoreOps
    /\ storeOps' = storeOps + 1
    /\ storeRows' = IF DuckDBExecOk(item)
                    THEN Upsert(storeRows, [id |-> item.id, ver |-> item.ver])
                    ELSE storeRows
    /\ lastLogged' = ~DuckDBExecOk(item)
    /\ lastCall' = "returned"
    /\ UNCHANGED << storeKind, storeNameOk, storeState, storeTxn >>
    /\ UNCHANGED nonStoreVars

\* the statement inside the try of SQLiteConnection.insert_record executes;
\* item['id'] raises KeyError on a missing key
SQLiteConnExecOk(item) ==
    storeNameOk /\ storeState = "open" /\ item.shape = "ok"

\* SQLiteConnection.insert_record: try execute / except log / finally commit
SQLiteConnection_insert_record(item) ==
    /\ storeKind = "sqliteconn" /\ storeState # "none"
    /\ storeOps < MaxStoreOps
    /\ storeOps' = storeOps + 1
    /\ LET txn == IF storeNameOk /\ storeState = "open" /\ item.shape # "nokey"
                  THEN Execute(storeRows, storeTxn,
                               [id |-> item.id, ver |-> item.ver],
                               item.shape # "unbindable")
                  ELSE storeTxn
           done == IF storeState = "closed"
                   THEN [rows |-> storeRows, txn |-> txn]
                   ELSE Commit(storeRows, txn)
       IN  storeRows' = done.rows /\ storeTxn' = done.txn
    /\ lastLogged' = ~SQLiteConnExecOk(item)
    /\ lastCall' = IF storeState = "closed" THEN "raised" ELSE "returned"
    /\ UNCHANGED << storeKind, storeNameOk, storeState >>
    /\ UNCHANGED nonStoreVars

\* close(): self.conn.close(); closing a closed connection is accepted
Store_close ==
    /\ storeState # "none"
    /\ storeState' = "closed"
    /\ UNCHANGED << storeKind, storeNameOk, storeRows, storeTxn, lastCall,
                    lastLogged, storeOps >>
    /\ UNCHANGED nonStoreVars

InitStore ==
    /\ storeKind \in {"sqlite", "duckdb", "sqliteconn"}
    /\ storeNameOk \in BOOLEAN
    /\ storeState = "none"
    /\ storeRows = << >>
    /\ storeTxn = NoTxn
    /\ lastCall = "none"
    /\ lastLogged = FALSE
    /\ storeOps = 0
    /\ loopRunning = FALSE /\ CloudIdle
    /\ storage_instance = None /\ exited = FALSE
    /\ MainIdle /\ AdapterIdle /\ DetailIdle /\ TextIdle

NextStore ==
    \/ Store_init
    \/ \E item \in StoreItems : SQLite_insert_record(item)
    \/ \E item \in StoreItems : DuckDB_insert_record(item)
    \/ \E item \in StoreItems : SQLiteConnection_insert_record(item)
    \/ Store_close

SpecStore == InitStore /\ [][NextStore]_vars

\* C5 (as claimed): no insert_record call of an embedded store lets an
\* exception reach its caller.
C5_InsertNeverRaises == lastCall # "raised"

\* C16 (as claimed): no SQLiteBackend or DuckDBBackend whose table name is not
\* the known one comes out of its constructor, and none takes an insert.
C16_UnknownTableRejected ==
    (storeKind \in {"sqlite", "duckdb"} /\ storeState # "none") => storeNameOk

C30_State ==
    (storeKind = "sqlite" /\ lastCall = "returned") => ~storeTxn.open

C30_Step ==
    \A item \in StoreItems :
        (SQLite_insert_record(item) /\ SQLiteExecOk(item)) =>
            /\ lastCall' = "returned"
            /\ ~storeTxn'.open
            /\ storeRows'[[id |-> item.id, ver |-> item.ver]] >= 1

\* C30: whenever insert_record of SQLiteBackend has returned, no transaction
\* is open on its connection, and an insert_record whose INSERT OR REPLACE
\* executed returns with the row in the committed table, where a query issued
\* right after the call finds it.
C30_InsertCommitted == []C30_State /\ [][C30_Step]_vars

\* two inserts of the same id have returned from SQLiteBackend: the committed
\* table holds the second version of the row alone, and no transaction is open
C30_Witness ==
    /\ storeKind = "sqlite" /\ lastCall = "returned" /\ ~lastLogged
    /\ storeOps = 2 /\ ~storeTxn.open
    /\ storeRows = Upsert(EmptyStore, [id |-> "a", ver |-> 2])

\* C39 (as claimed): with TABLE_NAME unset, on an open SQLiteBackend or
\* DuckDBBackend built with the table name of the configuration defaults,
\* every insert_record of a well-formed record puts its row into the table
\* and logs no error.
C39_DefaultTableStores ==
    [][\A item \in StoreItems :
          ( /\ storeNameOk = TableNameKnown(ConfigTableName(None), None)
            /\ storeState = "open" /\ item.shape = "ok"
            /\ SQLite_insert_record(item) \/ DuckDB_insert_record(item) )
          => /\ storeRows'[[id |-> item.id, ver |-> item.ver]] >= 1
             /\ ~lastLogged']_vars

(***************************************************************************)
(* The orchestrator: main() and signal_handler (src/main.py), and the      *)
(* crawler run refresh_news_articles (src/news/crawler.py).                *)
(***************************************************************************)
MaxLinks == 2

\* default of the max_retries parameter
max_retries == 2

\* variables the orchestrator never touches (the crawler run counts its
\* insert_record calls in storeOps and names that variable itself)
nonMainVars ==
    << cloudOnlyVars, storeVars, adapterVars, detailVars, textVars >>

\* the process ends with the given exit code
Exit_mut(code) ==
    /\ exited' = TRUE
    /\ exitCode' = 0

Exit(code) ==
    /\ exited' = TRUE
    /\ exitCode' = code

\* main(), argument parsing: --use-crawler sends the run to the crawler
main_parse ==
    /\ ~exited /\ mainPc = "start"
    /\ mainPc' = IF useCrawler THEN "crawl_build" ELSE "config"
    /\ UNCHANGED << useCrawler, showConfig, cfgBackend, ownStorage, closeCalls,
                    exitCode, endedBy, linksLeft, attempt, stats,
                    storage_instance,
                    exited >>
    /\ UNCHANGED nonMainVars

\* main(): get_storage_config() raises ValueError on an unknown backend;
\* with --backend, get_storage_config(args.backend) passes an argument the
\* function does not take and raises TypeError; both are outside the try.
\* --show-config prints the configuration and returns.
main_config(override) ==
    /\ ~exited /\ mainPc = "config"
    /\ IF cfgBackend = "unknown" \/ override
       THEN Exit(1) /\ endedBy' = "uncaught" /\ UNCHANGED mainPc
       ELSE IF showConfig
            THEN Exit(0) /\ endedBy' = "return" /\ mainPc' = "returned"
            ELSE mainPc' = "scrape" /\ UNCHANGED << exited, exitCode, endedBy >>
    /\ UNCHANGED << useCrawler, showConfig, cfgBackend, ownStorage, closeCalls,
                    linksLeft, attempt, stats, storage_instance >>
    /\ UNCHANGED nonMainVars

\* get_all_articles takes only start_date
get_all_articles_accepts_backend == FALSE

\* main(): get_all_articles(start_date=..., backend=..., **config) inside the
\* try; the TypeError of the call is caught by `except Exception`, which ends
\* the process with sys.exit(1).  No backend is built and none is assigned to
\* storage_instance.
main_scrape ==
    /\ ~exited /\ mainPc = "scrape"
    /\ IF get_all_articles_accepts_backend
       THEN Exit(0) /\ endedBy' = "return" /\ mainPc' = "returned"
       ELSE Exit(1) /\ endedBy' = "exception" /\ UNCHANGED mainPc
    /\ UNCHANGED << useCrawler, showConfig, cfgBackend, ownStorage, closeCalls,
                    linksLeft, attempt, stats, storage_instance >>
    /\ UNCHANGED nonMainVars

\* refresh_news_articles: own_storage = storage is None;
\* storage = get_storage_backend_instance().  An unknown backend raises
\* ValueError; the cloud backend's constructor creates its consumer task with
\* no event loop running and raises RuntimeError.  Neither is caught.
crawl_build ==
    /\ ~exited /\ mainPc = "crawl_build"
    /\ IF cfgBackend \in {"sqlite", "duckdb"}
       THEN /\ ownStorage' = cfgBackend
            /\ mainPc' = "collect"
            /\ UNCHANGED << exited, exitCode, endedBy >>
       ELSE /\ Exit(1)
            /\ endedBy' = "uncaught"
            /\ UNCHANGED << ownStorage, mainPc >>
    /\ UNCHANGED << useCrawler, showConfig, cfgBackend, closeCalls, linksLeft,
                    attempt, stats, storage_instance >>
    /\ UNCHANGED nonMainVars

\* phase 1: _collect_article_links for every date; it catches every exception
\* and returns the links it found
crawl_collect(n) ==
    /\ ~exited /\ mainPc = "collect"
    /\ linksLeft' = n
    /\ mainPc' = "session"
    /\ UNCHANGED << useCrawler, showConfig, cfgBackend, ownStorage, closeCalls,
                    exitCode, endedBy, attempt, stats, storage_instance,
                    exited >>
    /\ UNCHANGED nonMainVars

\* phase 2: entering `with StealthySession(...)`; a failure to start the
\* browser is not caught anywhere
crawl_session_enter(ok) ==
    /\ ~exited /\ mainPc = "session"
    /\ IF ok
       THEN /\ mainPc' = "fetch"
            /\ attempt' = 1
            /\ UNCHANGED << exited, exitCode, endedBy >>
       ELSE /\ Exit(1)
            /\ endedBy' = "uncaught"
            /\ UNCHANGED << mainPc, attempt >>
    /\ UNCHANGED << useCrawler, showConfig, cfgBackend, ownStorage, closeCalls,
                    linksLeft, stats, storage_instance >>
    /\ UNCHANGED nonMainVars

\* _build_article calls html_to_markdown(html=...), a keyword the function
\* does not have: the call raises TypeError for every page
build_article_raises == TRUE

CountFailed_mut(st) == [st EXCEPT !.skipped = @ + 1]

\* `if article is None: stats['failed'] += 1`
CountFailed(st) == [st EXCEPT !.failed = @ + 1]

\* `if own_storage: storage.close()`: close() calls so far, after the test
CloseOwn_mut(own, n) == n + 1

CloseOwn(own, n) == IF own # "none" THEN n + 1 ELSE n

\* one attempt of _fetch_article for the next link.  A fetch error, a status
\* other than 200 and the TypeError of _build_article all lead to the next
\* attempt; after max_retries attempts _fetch_article returns None and the
\* caller counts the article as failed.
crawl_fetch_attempt(status200) ==
    /\ ~exited /\ mainPc = "fetch" /\ linksLeft > 0
    /\ IF status200 /\ ~build_article_raises
       THEN \* storage.insert_record(article); stats['success'] += 1
            /\ storeOps' = storeOps + 1
            /\ stats' = [stats EXCEPT !.success = @ + 1]
            /\ linksLeft' = linksLeft - 1
            /\ attempt' = 1
       ELSE IF attempt < max_retries
            THEN /\ attempt' = attempt + 1
                 /\ UNCHANGED << stats, linksLeft, storeOps >>
            ELSE /\ stats' = CountFailed(stats)
                 /\ linksLeft' = linksLeft - 1
                 /\ attempt' = 1
                 /\ UNCHANGED storeOps
    /\ UNCHANGED << mainPc, useCrawler, showConfig, cfgBackend, ownStorage,
                    closeCalls, exitCode, endedBy, storage_instance,
                    exited >>
    /\ UNCHANGED << storeKind, storeNameOk, storeState, storeRows, storeTxn,
                    lastCall, lastLogged >>
    /\ UNCHANGED << cloudOnlyVars, adapterVars, detailVars, textVars >>

\* the loop over the links is over: the session is left, `if own_storage:
\* storage.close()`, the stats are returned and main returns
crawl_finish ==
    /\ ~exited /\ mainPc = "fetch" /\ linksLeft = 0
    /\ closeCalls' = CloseOwn(ownStorage, closeCalls)
    /\ mainPc' = "returned"
    /\ Exit(0)
    /\ endedBy' = "return"
    /\ UNCHANGED << useCrawler, showConfig, cfgBackend, ownStorage, linksLeft,
                    attempt, stats, storage_instance >>
    /\ UNCHANGED nonMainVars

\* signal_handler while main runs: `if storage_instance:` closes the backend
\* the global refers to, then sys.exit(0).  Nothing assigns the global.
signal_handler ==
    /\ ~exited /\ mainPc # "idle"
    /\ closeCalls' = IF storage_instance # None THEN closeCalls + 1
                     ELSE closeCalls
    /\ Exit(0)
    /\ endedBy' = "signal"
    /\ UNCHANGED << mainPc, useCrawler, showConfig, cfgBackend, ownStorage,
                    linksLeft, attempt, stats, storage_instance >>
    /\ UNCHANGED nonMainVars

InitMain ==
    /\ mainPc = "start"
    /\ useCrawler \in BOOLEAN
    /\ showConfig \in BOOLEAN
    /\ cfgBackend \in {"sqlite", "duckdb", "bigquery", "unknown"}
    /\ ownStorage = "none"
    /\ closeCalls = 0
    /\ exitCode = None
    /\ endedBy = "none"
    /\ linksLeft = 0
    /\ attempt = 0
    /\ stats = [success |-> 0, failed |-> 0, skipped |-> 0]
    /\ storage_instance = None
    /\ exited = FALSE
    /\ loopRunning = FALSE /\ CloudIdle
    /\ StoreIdle /\ AdapterIdle /\ DetailIdle /\ TextIdle

NextMain ==
    \/ main_parse
    \/ \E override \in BOOLEAN : main_config(override)
    \/ main_scrape
    \/ crawl_build
    \/ \E n \in 0..MaxLinks : crawl_collect(n)
    \/ \E ok \in BOOLEAN : crawl_session_enter(ok)
    \/ \E status200 \in BOOLEAN : crawl_fetch_attempt(status200)
    \/ crawl_finish
    \/ signal_handler

SpecMain == InitMain /\ [][NextMain]_vars

\* C4 (as claimed): when the process has ended after a run that built a
\* storage backend, close() has been called on that backend exactly once.
C4_CloseExactlyOnce ==
    (exited /\ ownStorage # "none") => closeCalls = 1

\* C21 (as claimed): a run of main with neither --use-crawler nor
\* --show-config and with a known STORAGE_BACKEND, once it has gone through
\* its configuration and its call of get_all_articles (it returned, or ended
\* on an exception), has built one storage backend of the configured kind.
C21_OneBackendOfConfiguredKind ==
    ( /\ ~useCrawler /\ ~showConfig /\ cfgBackend # "unknown"
      /\ \/ mainPc = "returned"
         \/ mainPc \in {"config", "scrape"} /\ exited /\ exitCode = 1 )
    => ownStorage = cfgBackend

C29_State == mainPc = "fetch" => attempt \in 1..max_retries

C29_Step ==
    /\ crawl_fetch_attempt(TRUE) =>
           /\ stats'.success = stats.success + 1
           /\ linksLeft' = linksLeft - 1 /\ attempt' = 1
    /\ (mainPc = "fetch" /\ stats'.failed # stats.failed) =>
           /\ attempt = max_retries
           /\ stats'.failed = stats.failed + 1
           /\ linksLeft' = linksLeft - 1 /\ attempt' = 1 /\ mainPc' = "fetch"

\* C29 (as claimed): _fetch_article never makes more than max_retries
\* attempts for an article; an attempt whose fetch answers with status 200
\* ends the article as a success, with no further attempt; an article is
\* counted as failed only when its attempt number max_retries has failed, and
\* the run then goes on with the next article.
C29_RetryThenGiveUp == []C29_State /\ [][C29_Step]_vars

\* articles accounted for so far, and links still to scrape
Accounted(st, left) == st.success + st.failed + left

C37_State ==
    /\ stats.skipped = 0
    /\ stats.success = storeOps
    /\ mainPc \in {"start", "config", "scrape", "crawl_build", "collect"}
           => Accounted(stats, linksLeft) = 0
    /\ (useCrawler /\ mainPc = "returned") => linksLeft = 0

C37_Step ==
    mainPc # "collect" =>
        Accounted(stats', linksLeft') = Accounted(stats, linksLeft)

\* C37: nothing is counted before the links are collected, and from then on
\* every step keeps success + failed + links still to scrape unchanged, so
\* that when refresh_news_articles returns, with no link left, success +
\* failed is the number of collected links; success is the number of
\* insert_record calls, and skipped is 0.
C37_StatsAddUp == []C37_State /\ [][C37_Step]_vars

\* the crawler run has returned after every one of its links failed
C37_Witness ==
    /\ useCrawler /\ mainPc = "returned"
    /\ stats.failed = MaxLinks /\ stats.success = 0 /\ linksLeft = 0

\* refresh_news_articles on its own, as any caller may call it: with storage
\* None the run starts by building its backend, with a backend passed in
\* (own_storage false, ownStorage stays "none") it starts at the collection
\* of the links
InitCrawl ==
    /\ mainPc \in {"crawl_build", "collect"}
    /\ useCrawler = TRUE
    /\ showConfig = FALSE
    /\ cfgBackend \in {"sqlite", "duckdb", "bigquery", "unknown"}
    /\ ownStorage = "none"
    /\ closeCalls = 0
    /\ exitCode = None
    /\ endedBy = "none"
    /\ linksLeft = 0
    /\ attempt = 0
    /\ stats = [success |-> 0, failed |-> 0, skipped |-> 0]
    /\ storage_instance = None
    /\ exited = FALSE
    /\ loopRunning = FALSE /\ CloudIdle
    /\ StoreIdle /\ AdapterIdle /\ DetailIdle /\ TextIdle

NextCrawl ==
    \/ crawl_build
    \/ \E n \in 0..MaxLinks : crawl_collect(n)
    \/ \E ok \in BOOLEAN : crawl_session_enter(ok)
    \/ \E status200 \in BOOLEAN : crawl_fetch_attempt(status200)
    \/ crawl_finish

SpecCrawl == InitCrawl /\ [][NextCrawl]_vars

\* C38: refresh_news_articles calls close() at most once, only on a backend
\* it built itself and only when it returns, with no link left; when it has
\* returned it has closed the backend it built exactly once, and a backend
\* that was passed in not at all.
C38_ClosesOwnStorageOnce ==
    /\ closeCalls <= 1
    /\ closeCalls = 1 =>
           ownStorage # "none" /\ mainPc = "returned" /\ linksLeft = 0
    /\ mainPc = "returned" =>
           closeCalls = IF ownStorage # "none" THEN 1 ELSE 0

\* a run on a backend that was passed in has returned after its last article
\* without closing the backend
C38_Witness ==
    /\ mainPc = "returned" /\ ownStorage = "none"
    /\ stats.failed = MaxLinks /\ closeCalls = 0

\* C23 (as claimed): with --show-config the run never enters the crawler or
\* the call of get_all_articles, never builds a storage backend, and, unless
\* a signal ends it, ends by returning with exit code 0.
C23_ShowConfigOnly ==
    showConfig =>
        /\ mainPc \in {"start", "config", "returned"}
        /\ ownStorage = "none"
        /\ (exited /\ endedBy # "signal") => endedBy = "return" /\ exitCode = 0

(***************************************************************************)
(* The paging loops of abscbn_articles and manila_bulletin_articles        *)
(* (src/news/apis.py).  An item of a listing page is TRUE when its date is *)
(* on or after start_date and FALSE when it is older.  The content of a    *)
(* page is chosen when the page is requested.                              *)
(***************************************************************************)
MaxItems == 3
MaxPages == 3
NumSections == 2

\* listing pages: up to MaxItems items each
Pages == UNION { [1..n -> BOOLEAN] : n \in 0..MaxItems }

\* answers to a listing request: a page of items, a transport error or a status
\* other than 200 (async_get raises), an answer whose 'response' is not
\* 'success'
AbsResponses ==
    [kind : {"page"}, items : Pages] \cup { [kind |-> "error", items |-> << >>] }

MbResponses ==
    AbsResponses \cup { [kind |-> "not_success", items |-> << >>] }

\* variables the adapters never touch
nonAdapterVars == << cloudVars, storeVars, mainVars, detailVars, textVars >>

AllFresh(items) == \A i \in 1..Len(items) : items[i]

HasFresh(items) == \E i \in 1..Len(items) : items[i]

AbsFiltered_mut(items) == { i \in 1..Len(items) : items[i] }

AbsFiltered_all(items) == 1..Len(items)

\* abscbn_articles, the date filter: the items before the first older one
AbsFiltered(items) == { i \in 1..Len(items) : \A j \in 1..i : items[j] }

MbFiltered_mut(items) == 1..Len(items)

\* manila_bulletin_articles, the date filter: every item of the page that is
\* not older than start_date
MbFiltered(items) == { i \in 1..Len(items) : items[i] }

RECURSIVE EmitSeq(_, _, _)
\* the records handed to insert_record for the items keep of page p, in the
\* order of the page; n is the length of the page
EmitSeq(p, n, keep) ==
    IF n = 0 THEN << >>
    ELSE IF n \in keep
         THEN Append(EmitSeq(p, n - 1, keep), [page |-> p, idx |-> n])
         ELSE EmitSeq(p, n - 1, keep)

\* one turn of the while loop of abscbn_articles: request the page at the
\* current offset, filter, gather the detail requests of the filtered items
\* (failed: the items whose detail request fails), insert, offset += limit,
\* test created_date >= start_date again.  An exception of async_get, in the
\* listing or in a detail request, leaves the coroutine.
abscbn_page(resp, failed) ==
    /\ adapter = "abscbn" /\ aPc = "paging" /\ page <= MaxPages
    /\ seen' = Append(seen, [page |-> page, kind |-> resp.kind,
                             items |-> resp.items, failed |-> failed])
    /\ IF resp.kind # "page"
       THEN aPc' = "raised" /\ UNCHANGED << emitted, page >>
       ELSE IF resp.items = << >>
       THEN aPc' = "done" /\ UNCHANGED << emitted, page >>
       ELSE IF failed \cap AbsFiltered(resp.items) # {}
       THEN aPc' = "raised" /\ UNCHANGED << emitted, page >>
       ELSE /\ emitted' = emitted \o EmitSeq(page, Len(resp.items),
                                             AbsFiltered(resp.items))
            /\ page' = page + 1
            /\ aPc' = IF AllFresh(resp.items) THEN "paging" ELSE "done"
    /\ UNCHANGED << adapter, section >>
    /\ UNCHANGED nonAdapterVars

MbBreaks_mut(resp) == resp.kind # "page"

\* manila_bulletin_articles, the breaks out of the page loop of a section: an
\* exception of the request, an answer that is not 'success', an empty page,
\* a page with no item left after the date filter
MbBreaks(resp) == resp.kind # "page" \/ MbFiltered(resp.items) = {}

\* one turn of the `while True` loop of manila_bulletin_articles for the
\* current section: request the page, filter the whole page, fetch and insert
\* each filtered item (an item whose detail request fails is skipped),
\* page += 1.  An exception, an unsuccessful or empty answer and a page with
\* no item left after the filter all break out of the loop.
mb_page(resp, failed) ==
    /\ adapter = "manila_bulletin" /\ aPc = "paging" /\ page <= MaxPages
    /\ seen' = Append(seen, [page |-> page, kind |-> resp.kind,
                             items |-> resp.items, failed |-> failed])
    /\ IF MbBreaks(resp)
       THEN aPc' = "section_end" /\ UNCHANGED << emitted, page >>
       ELSE /\ emitted' = emitted \o EmitSeq(page, Len(resp.items),
                                             MbFiltered(resp.items) \ failed)
            /\ page' = page + 1
            /\ aPc' = "paging"
    /\ UNCHANGED << adapter, section >>
    /\ UNCHANGED nonAdapterVars

\* `for section_id in section_ids:` moves on: page = 1 for the next section,
\* or the coroutine ends after the last one
mb_next_section ==
    /\ adapter = "manila_bulletin" /\ aPc = "section_end"
    /\ IF section < NumSections
       THEN /\ section' = section + 1
            /\ page' = 1
            /\ seen' = << >>
            /\ emitted' = << >>
            /\ aPc' = "paging"
       ELSE /\ aPc' = "done"
            /\ UNCHANGED << section, page, seen, emitted >>
    /\ UNCHANGED adapter
    /\ UNCHANGED nonAdapterVars

\* answers of the Rappler listing: the request carries `after`, the server
\* returns only posts on or after start_date
RapplerResponses ==
    { r \in AbsResponses : r.kind = "page" => AllFresh(r.items) }

\* the items of a Rappler page handled before the first one that fails
RapplerDone(items, failed) ==
    { i \in 1..Len(items) : \A j \in 1..i : j \notin failed }

\* one turn of the `while True` loop of rappler_articles: request the page,
\* then item by item transform, gather the tag lookups and insert; page += 1.
\* Every exception, of the page request or of an item, is caught by the one
\* except clause around the turn, which breaks out of the loop.  An empty
\* page is a turn like any other.
rappler_page(resp, failed) ==
    /\ adapter = "rappler" /\ aPc = "paging" /\ page <= MaxPages
    /\ seen' = Append(seen, [page |-> page, kind |-> resp.kind,
                             items |-> resp.items, failed |-> failed])
    /\ IF resp.kind # "page"
       THEN aPc' = "done" /\ UNCHANGED << emitted, page >>
       ELSE /\ emitted' = emitted \o EmitSeq(page, Len(resp.items),
                                             RapplerDone(resp.items, failed))
            /\ IF failed \cap (1..Len(resp.items)) # {}
               THEN aPc' = "done" /\ UNCHANGED page
               ELSE aPc' = "paging" /\ page' = page + 1
    /\ UNCHANGED << adapter, section >>
    /\ UNCHANGED nonAdapterVars

\* get_all_articles: run_until_complete of abscbn_articles, then of
\* rappler_articles, then of manila_bulletin_articles.  A coroutine that
\* raised ends get_all_articles: there is no step from "raised".
get_all_articles_next ==
    /\ aPc = "done" /\ adapter \in {"abscbn", "rappler"}
    /\ adapter' = IF adapter = "abscbn" THEN "rappler" ELSE "manila_bulletin"
    /\ aPc' = "paging"
    /\ section' = 1
    /\ page' = 1
    /\ seen' = << >>
    /\ emitted' = << >>
    /\ UNCHANGED nonAdapterVars

InitAdapter ==
    /\ adapter \in {"abscbn", "rappler", "manila_bulletin"}
    /\ aPc = "paging"
    /\ section = 1
    /\ page = 1
    /\ seen = << >>
    /\ emitted = << >>
    /\ loopRunning = FALSE /\ CloudIdle
    /\ storage_instance = None /\ exited = FALSE
    /\ StoreIdle /\ MainIdle /\ DetailIdle /\ TextIdle

\* a feed whose detail requests all succeed
NextAdapter ==
    \/ \E resp \in AbsResponses : abscbn_page(resp, {})
    \/ \E resp \in RapplerResponses : rappler_page(resp, {})
    \/ \E resp \in MbResponses : mb_page(resp, {})
    \/ mb_next_section
    \/ get_all_articles_next

SpecAdapter == InitAdapter /\ [][NextAdapter]_vars

\* the detail request, tag lookup or transformation of at most one item of a
\* page fails
FailChoices(items) == { {} } \cup { {i} : i \in 1..Len(items) }

\* a feed in which single items fail
NextAdapterFail ==
    \/ \E resp \in AbsResponses : \E failed \in FailChoices(resp.items) :
           abscbn_page(resp, failed)
    \/ \E resp \in RapplerResponses : \E failed \in FailChoices(resp.items) :
           rappler_page(resp, failed)
    \/ \E resp \in MbResponses : \E failed \in FailChoices(resp.items) :
           mb_page(resp, failed)
    \/ mb_next_section
    \/ get_all_articles_next

SpecAdapterFail == InitAdapter /\ [][NextAdapterFail]_vars

(***************************************************************************)
(* Properties of the paging loops.                                         *)
(***************************************************************************)
\* the k-th request of the section was answered with a listing page
IsPage(k) == seen[k].kind = "page"

\* page N is the first page holding an item older than start_date; every page
\* before it is non-empty and holds only items not older
Boundary(N) ==
    /\ N \in 1..Len(seen)
    /\ IsPage(N) /\ ~AllFresh(seen[N].items)
    /\ \A k \in 1..(N - 1) :
           IsPage(k) /\ seen[k].items # << >> /\ AllFresh(seen[k].items)

\* the requests of the section were for pages 1, 2, 3, ... in this order
PagesInOrder == \A k \in 1..Len(seen) : seen[k].page = k

\* every emitted record comes from an item not older than start_date
EmittedFresh ==
    \A i \in 1..Len(emitted) : seen[emitted[i].page].items[emitted[i].idx]

\* no item was emitted twice
EmittedOnce ==
    \A i, j \in 1..Len(emitted) : emitted[i] = emitted[j] => i = j

\* the loop over the pages of the section is over
Terminated == aPc \in {"done", "section_end"}

\* C6 (as claimed): when page N is the first page with an item older than
\* start_date, the adapter has requested exactly pages 1..N, stops after page
\* N, and has emitted only items not older than start_date.
C6_StopsAfterBoundaryPage ==
    \A N \in 1..Len(seen) :
        Boundary(N) =>
            /\ Len(seen) = N /\ PagesInOrder
            /\ Terminated
            /\ EmittedFresh

\* C6 (amended): pages are requested in order 1, 2, ... and only items not
\* older than start_date are emitted.  ABS-CBN stops after the first page
\* that holds an older item.  A Manila Bulletin section stops after the first
\* page that holds no item on or after start_date (or that failed), and goes
\* on to the next page after every page that still holds one, also when that
\* page holds older items.
C6_StopsPerAdapterPolicy ==
    /\ PagesInOrder
    /\ EmittedFresh
    /\ aPc = "paging" => page = Len(seen) + 1
    /\ adapter = "abscbn" =>
           \A N \in 1..Len(seen) :
               Boundary(N) => Len(seen) = N /\ aPc = "done"
    /\ adapter = "manila_bulletin" =>
           \A N \in 1..Len(seen) :
               IF IsPage(N) /\ HasFresh(seen[N].items)
               THEN N < Len(seen) \/ aPc = "paging"
               ELSE N = Len(seen) /\ Terminated

\* a Manila Bulletin section has requested page 3 after a page 2 that holds
\* an older item next to a newer one
C6_Witness ==
    /\ adapter = "manila_bulletin"
    /\ Len(seen) = 3
    /\ Boundary(2) /\ HasFresh(seen[2].items)

\* the feed of the scenario: page 1 has three items on or after start_date,
\* page 2 has one such item and one older item, in either order, and there is
\* no third page
Scenario ==
    /\ Len(seen) >= 2
    /\ IsPage(1) /\ seen[1].items = << TRUE, TRUE, TRUE >>
    /\ IsPage(2) /\ seen[2].items \in { << TRUE, FALSE >>, << FALSE, TRUE >> }
    /\ Len(seen) >= 3 => IsPage(3) /\ seen[3].items = << >>

Qualifying(items) ==
    IF adapter = "abscbn" THEN AbsFiltered(items)
    ELSE IF adapter = "manila_bulletin" THEN MbFiltered(items)
    ELSE 1..Len(items)

\* item i of page k was handed to insert_record
Emitted(k, i) ==
    \E n \in 1..Len(emitted) : emitted[n] = [page |-> k, idx |-> i]

\* C11 (as claimed): when a qualifying item of a page fails, every other
\* qualifying item of that page has been handed to insert_record and the
\* adapter goes on to the next page (unless the page is the one at which the
\* ABS-CBN date filter stops the adapter anyway).
C11_OnlyFailedItemSkipped ==
    \A k \in 1..Len(seen) :
        (IsPage(k) /\ seen[k].failed \cap Qualifying(seen[k].items) # {}) =>
            /\ \A i \in Qualifying(seen[k].items) \ seen[k].failed :
                   Emitted(k, i)
            /\ \/ k < Len(seen)
               \/ aPc = "paging"
               \/ adapter = "abscbn" /\ ~AllFresh(seen[k].items) /\ aPc = "done"

\* C12 (as claimed): after a failed page request no further page of that
\* adapter or section is requested, and the adapter or section has ended in
\* the regular way, so that the sections and adapters behind it are run.
C12_PageFailureEndsOnlyAdapter ==
    \A k \in 1..Len(seen) :
        seen[k].kind = "error" =>
            /\ k = Len(seen)
            /\ aPc \in {"section_end", "done"}

\* C13 (as claimed): a successful answer with no item is the last request of
\* the adapter or section, whose page loop is then over.
C13_EmptyPageStops ==
    \A k \in 1..Len(seen) :
        (IsPage(k) /\ seen[k].items = << >>) =>
            /\ k = Len(seen)
            /\ Terminated

\* the k-th answer of the section is one that ends a Manila Bulletin section:
\* a failed or unsuccessful request, an empty page, a page of older items only
EndsSection(k) == ~IsPage(k) \/ ~HasFresh(seen[k].items)

\* what C14 says of a state of the Manila Bulletin adapter
C14_State ==
    adapter = "manila_bulletin" =>
        /\ section \in 1..NumSections
        /\ aPc # "raised"
        /\ aPc = "done" => section = NumSections
        /\ \A k \in 1..Len(seen) :
               EndsSection(k) =>
                   /\ k = Len(seen)
                   /\ \/ aPc = "section_end"
                      \/ aPc = "done" /\ section = NumSections

\* what C14 says of a step: the adapter starts in the first section, and the
\* section changes only from an ended section to the one behind it in the
\* list, with the page counter back at 1
C14_Step ==
    /\ (adapter' = "manila_bulletin" /\ adapter # "manila_bulletin") =>
           section' = 1 /\ page' = 1
    /\ (adapter = "manila_bulletin" /\ section' # section) =>
           /\ aPc = "section_end" /\ aPc' = "paging"
           /\ section' = section + 1
           /\ page' = 1

\* C14: in manila_bulletin_articles an empty page, an unsuccessful answer or
\* a page of older items only ends the current section and nothing else; the
\* adapter moves to the next section with the page counter reset to 1 and has
\* visited every section once, in list order, when it finishes.
C14_SectionsInOrder ==
    /\ adapter = "manila_bulletin" => section = 1 /\ page = 1
    /\ []C14_State
    /\ [][C14_Step]_vars

\* the adapter has finished in its last section, which is not its first, on a
\* page of older items only
C14_Witness ==
    /\ adapter = "manila_bulletin"
    /\ aPc = "done"
    /\ section = NumSections /\ section > 1
    /\ seen # << >>
    /\ IsPage(Len(seen))
    /\ seen[Len(seen)].items # << >>
    /\ ~HasFresh(seen[Len(seen)].items)

(***************************************************************************)
(* The adapters of src/news/apis.py step by step: one action per await of  *)
(* a page, one per detail request that returns.                            *)
(***************************************************************************)
MaxDetailItems == 2
MaxDetailPages == 2

DetailPages == UNION { [1..n -> BOOLEAN] : n \in 0..MaxDetailItems }

DetailResponses ==
    [kind : {"page"}, items : DetailPages]
        \cup { [kind |-> "error", items |-> << >>],
               [kind |-> "not_success", items |-> << >>] }

\* the answers an adapter can get to a listing request
ResponsesOf(a) ==
    IF a = "abscbn" THEN { r \in DetailResponses : r.kind # "not_success" }
    ELSE IF a = "rappler"
    THEN { r \in DetailResponses :
               r.kind # "not_success" /\ AllFresh(r.items) }
    ELSE DetailResponses

\* variables the step-by-step actions leave alone
nonDetailVars == << cloudVars, storeVars, mainVars, textVars >>

Min(S) == CHOOSE x \in S : \A y \in S : x <= y

\* the answer to the listing request under work
CurrentItems == seen[Len(seen)].items

\* the detail request of item i of the current page has failed
NoteFailed(i) == [seen EXCEPT ![Len(seen)].failed = @ \cup {i}]

\* abscbn_articles: the listing request returns; the filter runs and the
\* detail requests of all filtered items are started together by gather
d_abscbn_request(resp) ==
    /\ adapter = "abscbn" /\ aPc = "paging" /\ page <= MaxDetailPages
    /\ seen' = Append(seen, [page |-> page, kind |-> resp.kind,
                             items |-> resp.items, failed |-> {}])
    /\ IF resp.kind # "page"
       THEN aPc' = "raised" /\ UNCHANGED << inflight, todo >>
       ELSE IF resp.items = << >>
       THEN aPc' = "done" /\ UNCHANGED << inflight, todo >>
       ELSE /\ aPc' = "detailing"
            /\ inflight' = AbsFiltered(resp.items)
            /\ todo' = {}
    /\ resolved' = << >>
    /\ UNCHANGED << adapter, section, page, emitted >>
    /\ UNCHANGED nonDetailVars

\* one detail request of the gather returns; a failed one makes gather raise
\* at once, the exception leaves the coroutine while the others are awaited
d_abscbn_resolve(i, ok) ==
    /\ adapter = "abscbn" /\ aPc = "detailing" /\ i \in inflight
    /\ inflight' = inflight \ {i}
    /\ IF ok
       THEN /\ resolved' = Append(resolved, i)
            /\ UNCHANGED << aPc, seen >>
       ELSE /\ aPc' = "raised"
            /\ seen' = NoteFailed(i)
            /\ resolved' = << >>
    /\ UNCHANGED << adapter, section, page, emitted, todo >>
    /\ UNCHANGED nonDetailVars

GatherReturned_mut(fl) == TRUE

GatherResults_mut(p, n, done) ==
    [k \in 1..Len(done) |-> [page |-> p, idx |-> done[k]]]

\* the list gather returns, walked by `for article in details`: one result
\* per task in the order of the tasks, which is the order of the page (n is
\* the length of the page, done the items in the order their answers came)
GatherResults(p, n, done) ==
    EmitSeq(p, n, { done[k] : k \in 1..Len(done) })

\* `details = await asyncio.gather(*tasks)` returns when no task is left
GatherReturned(fl) == fl = {}

\* gather has returned: every detail is inserted, offset += limit, and the
\* loop condition is tested; `details` lives until the coroutine ends
d_abscbn_insert ==
    /\ adapter = "abscbn" /\ aPc = "detailing" /\ GatherReturned(inflight)
    /\ emitted' = emitted \o GatherResults(page, Len(CurrentItems), resolved)
    /\ page' = page + 1
    /\ aPc' = IF AllFresh(CurrentItems) THEN "paging" ELSE "done"
    /\ resolved' = IF AllFresh(CurrentItems) THEN resolved ELSE << >>
    /\ UNCHANGED << adapter, section, seen, inflight, todo >>
    /\ UNCHANGED nonDetailVars

\* the detail request of the first item of S is started, the others wait
StartNext(S) ==
    /\ inflight' = IF S = {} THEN {} ELSE {Min(S)}
    /\ todo' = IF S = {} THEN {} ELSE S \ {Min(S)}

\* manila_bulletin_articles: the listing request returns; after the filter
\* the detail request of the first filtered item is awaited
d_mb_request(resp) ==
    /\ adapter = "manila_bulletin" /\ aPc = "paging"
    /\ page <= MaxDetailPages
    /\ seen' = Append(seen, [page |-> page, kind |-> resp.kind,
                             items |-> resp.items, failed |-> {}])
    /\ IF MbBreaks(resp)
       THEN aPc' = "section_end" /\ UNCHANGED << inflight, todo >>
       ELSE aPc' = "detailing" /\ StartNext(MbFiltered(resp.items))
    /\ UNCHANGED << adapter, section, page, emitted, resolved >>
    /\ UNCHANGED nonDetailVars

\* rappler_articles: the listing request returns; the items are handled one
\* after the other, each with a gather of its tag lookups
d_rappler_request(resp) ==
    /\ adapter = "rappler" /\ aPc = "paging" /\ page <= MaxDetailPages
    /\ seen' = Append(seen, [page |-> page, kind |-> resp.kind,
                             items |-> resp.items, failed |-> {}])
    /\ IF resp.kind # "page"
       THEN aPc' = "done" /\ UNCHANGED << inflight, todo, page >>
       ELSE IF resp.items = << >>
       THEN aPc' = "paging" /\ page' = page + 1 /\ UNCHANGED << inflight, todo >>
       ELSE /\ aPc' = "detailing"
            /\ StartNext(1..Len(resp.items))
            /\ UNCHANGED page
    /\ UNCHANGED << adapter, section, emitted, resolved >>
    /\ UNCHANGED nonDetailVars

\* the awaited request of an item returns in manila_bulletin_articles or
\* rappler_articles: the record is inserted, or the item is skipped (Manila
\* Bulletin) or the page loop is left (Rappler); then the next item is
\* started or, after the last one, page += 1
d_item_resolve(i, ok) ==
    /\ adapter \in {"manila_bulletin", "rappler"}
    /\ aPc = "detailing" /\ i \in inflight
    /\ emitted' = IF ok THEN Append(emitted, [page |-> page, idx |-> i])
                  ELSE emitted
    /\ seen' = IF ok THEN seen ELSE NoteFailed(i)
    /\ IF ~ok /\ adapter = "rappler"
       THEN /\ aPc' = "done"
            /\ inflight' = {} /\ todo' = {}
            /\ UNCHANGED page
       ELSE /\ StartNext(todo)
            /\ IF todo = {}
               THEN aPc' = "paging" /\ page' = page + 1
               ELSE UNCHANGED << aPc, page >>
    /\ UNCHANGED << adapter, section, resolved >>
    /\ UNCHANGED nonDetailVars

NextDetail ==
    \/ \E resp \in ResponsesOf("abscbn") : d_abscbn_request(resp)
    \/ \E i \in 1..MaxDetailItems : \E ok \in BOOLEAN : d_abscbn_resolve(i, ok)
    \/ d_abscbn_insert
    \/ \E resp \in ResponsesOf("manila_bulletin") : d_mb_request(resp)
    \/ \E resp \in ResponsesOf("rappler") : d_rappler_request(resp)
    \/ \E i \in 1..MaxDetailItems : \E ok \in BOOLEAN : d_item_resolve(i, ok)
    \/ mb_next_section
    \/ get_all_articles_next

SpecDetail == InitAdapter /\ [][NextDetail]_vars

\* C15: when a page is requested after another page of the same adapter or
\* section, no detail request of that earlier page is awaited any more and
\* every item of it that passed the filter and whose detail request succeeded
\* has been handed to insert_record.
C15_Step ==
    (Len(seen') = Len(seen) + 1 /\ seen # << >>) =>
        /\ inflight = {} /\ todo = {}
        /\ \A i \in Qualifying(CurrentItems) \ seen[Len(seen)].failed :
               Emitted(Len(seen), i)

C15_NextPageAfterBatch == [][C15_Step]_vars

\* ABS-CBN has requested page 2 after a page 1 of two items, both fetched
C15_Witness ==
    /\ adapter = "abscbn"
    /\ Len(seen) = 2
    /\ Len(seen[1].items) >= 2 /\ AllFresh(seen[1].items)
    /\ Emitted(1, 1) /\ Emitted(1, 2)

\* the records a step hands to insert_record
NewlyEmitted == SubSeq(emitted', Len(emitted) + 1, Len(emitted'))

C32_Step ==
    (adapter = "abscbn" /\ Len(emitted') > Len(emitted)) =>
        /\ inflight = {}
        /\ emitted = SubSeq(emitted', 1, Len(emitted))
        /\ Len(NewlyEmitted) = Len(resolved)
        /\ \A k \in 1..Len(resolved) :
               \E n \in 1..Len(NewlyEmitted) :
                   NewlyEmitted[n] = [page |-> page, idx |-> resolved[k]]
        /\ \A k, l \in 1..Len(NewlyEmitted) :
               k < l => NewlyEmitted[k].idx < NewlyEmitted[l].idx

\* C32 (amended): the ABS-CBN adapter hands the records of a page batch to
\* insert_record once every detail fetch of the batch has completed, one
\* record per fetch, in the order of the items in the feed, whatever the
\* order in which the fetches completed.
C32_FeedOrder == [][C32_Step]_vars

\* the second item of a page completed before the first, and both records have
\* been handed to insert_record
C32_Witness ==
    /\ adapter = "abscbn" /\ resolved = << 2, 1 >>
    /\ Len(emitted) = 2 /\ page = 2

\* C32 (as claimed): the ABS-CBN adapter hands the records of a page batch to
\* insert_record in the order in which their detail fetches completed.
C32_CompletionOrder ==
    [][(adapter = "abscbn" /\ Len(emitted') > Len(emitted)) =>
           NewlyEmitted = [k \in 1..Len(resolved) |->
                               [page |-> page, idx |-> resolved[k]]]]_vars

\* the items of a page that are older than start_date
Older(items) == { i \in 1..Len(items) : ~items[i] }

Days == {"2024-01-01", "2024-01-02"}

\* the placeholder the adapters use for a missing body
NoContent == "No content found"

RawBody == "<p>body</p>"
RawSummary == "<p>summary</p>"

\* html_to_markdown on the texts of this section: markup is taken away, text
\* without markup comes back as it is
Markdown(x) ==
    CASE x = RawBody -> "body"
      [] x = RawSummary -> "summary"
      [] OTHER -> x

\* what the API of the source answers for one article:
\*   day        - calendar day of the listing's timestamp
\*   detailTime - the detail answer carries publish_time of the same
\*                timestamp, or does not carry it
\*   body       - "nodata": no data / content object; "absent": the object is
\*                there without a body; "empty": the body is ''; "html"
\*   summary    - the detail answer carries a summary (HTML) or none
RecordInputs ==
    [ adapter : {"abscbn", "rappler", "manila_bulletin", "inquirer"},
      day : Days,
      detailTime : {"absent", "same"},
      body : {"nodata", "absent", "empty", "html"},
      summary : {"absent", "html"} ]

Row(date, publish_time, content) ==
    [ kind |-> "row", date |-> date, publish_time |-> publish_time,
      cleaned_content |-> content ]

\* a timestamp string of the given day; no timestamp
Stamp(day) == [present |-> TRUE, day |-> day]
NoStamp == [present |-> FALSE, day |-> NULL]

\* variables the building of a record never touches
nonRecordVars ==
    << cloudVars, storeVars, mainVars, adapterVars, detailVars,
       hPc, hArg, hLists, hSoup, hText >>

\* abscbn_articles: date and publish_time are both formatted from the
\* listing's createdDateFull; the content is html_to_markdown of body_html, of
\* the placeholder when the answer has no data, and html_to_markdown(None)
\* raises TypeError when data has no body_html
abscbn_record ==
    /\ rInput.adapter = "abscbn" /\ rec.kind = "none"
    /\ rec' = CASE rInput.body = "absent" -> [kind |-> "raised"]
                [] rInput.body = "nodata" ->
                     Row(rInput.day, Stamp(rInput.day), Markdown(NoContent))
                [] rInput.body = "empty" ->
                     Row(rInput.day, Stamp(rInput.day), Markdown(""))
                [] OTHER ->
                     Row(rInput.day, Stamp(rInput.day), Markdown(RawBody))
    /\ UNCHANGED rInput
    /\ UNCHANGED nonRecordVars

\* rappler_articles: date is the part of article['date'] before 'T',
\* publish_time is that date parsed and formatted again; the content is
\* html_to_markdown of content.rendered, by default of the placeholder
rappler_record ==
    /\ rInput.adapter = "rappler" /\ rec.kind = "none"
    /\ rec' = CASE rInput.body \in {"nodata", "absent"} ->
                     Row(rInput.day, Stamp(rInput.day), Markdown(NoContent))
                [] rInput.body = "empty" ->
                     Row(rInput.day, Stamp(rInput.day), Markdown(""))
                [] OTHER ->
                     Row(rInput.day, Stamp(rInput.day), Markdown(RawBody))
    /\ UNCHANGED rInput
    /\ UNCHANGED nonRecordVars

\* `if article_body: html_to_markdown(article_body) else:
\*  article_data.get('summary', 'No content found')`
MbContent(inp) ==
    IF inp.body = "html" THEN Markdown(RawBody)
    ELSE IF inp.summary = "html" THEN RawSummary ELSE NoContent

\* manila_bulletin_articles: date and publish_time are read from the detail
\* answer: with publish_time missing there, date is None and publish_time ''
manila_bulletin_record ==
    /\ rInput.adapter = "manila_bulletin" /\ rec.kind = "none"
    /\ rec' = IF rInput.detailTime = "same"
              THEN Row(rInput.day, Stamp(rInput.day), MbContent(rInput))
              ELSE Row(NULL, NoStamp, MbContent(rInput))
    /\ UNCHANGED rInput
    /\ UNCHANGED nonRecordVars

\* the crawler's _build_article: the call html_to_markdown(html=...) raises
\* TypeError before any record exists; past it, date is the day of the index
\* page and publish_time the timestamp found on the article page, or None
build_article_record ==
    /\ rInput.adapter = "inquirer" /\ rec.kind = "none"
    /\ rec' = IF build_article_raises THEN [kind |-> "raised"]
              ELSE Row(rInput.day,
                       IF rInput.detailTime = "same" THEN Stamp(rInput.day)
                       ELSE NoStamp,
                       Markdown(IF rInput.body = "html" THEN RawBody ELSE ""))
    /\ UNCHANGED rInput
    /\ UNCHANGED nonRecordVars

InitRecord ==
    /\ rInput \in RecordInputs
    /\ rec = [kind |-> "none"]
    /\ hPc = "idle" /\ hArg = << >> /\ hLists = << >>
    /\ hSoup = {} /\ hText = << >>
    /\ loopRunning = FALSE /\ CloudIdle
    /\ storage_instance = None /\ exited = FALSE
    /\ StoreIdle /\ MainIdle /\ AdapterIdle /\ DetailIdle

NextRecord ==
    \/ abscbn_record
    \/ rappler_record
    \/ manila_bulletin_record
    \/ build_article_record

SpecRecord == InitRecord /\ [][NextRecord]_vars

\* C24 (as claimed): every record handed to insert_record carries a
\* publish_time, and its date is the calendar day of that publish_time.
C24_DateOfPublishTime ==
    rec.kind = "row" =>
        /\ rec.publish_time.present
        /\ rec.date = rec.publish_time.day

\* texts that html_to_markdown can return
IsMarkdown(t) == \E x \in {"", NoContent, RawBody, RawSummary} : t = Markdown(x)

\* C25 (as claimed): the cleaned_content of every record handed to
\* insert_record is a text returned by html_to_markdown, and for an article
\* with a body it is html_to_markdown of that body.
C25_ContentNormalized ==
    rec.kind = "row" =>
        /\ IsMarkdown(rec.cleaned_content)
        /\ rInput.body = "html" => rec.cleaned_content = Markdown(RawBody)

(***************************************************************************)
(* html_to_markdown (src/util/tools.py).  A text is a sequence of          *)
(* characters; words stand for runs of characters that are not whitespace. *)
(* An HTML document is a sequence of elements, each with its tag name, id, *)
(* classes, parent (0 for none; a parent comes before its children) and a  *)
(* text of its own.  The inputs carry no character references, so that     *)
(* html.unescape has nothing to replace in them.                           *)
(***************************************************************************)
MaxNodes == 2
MaxText == 5

NL == "\n"
SP == " "
TAB == "\t"
Whitespace == {NL, SP, TAB}

\* the text of the element at each position of a document
NodeText == << "t1", "t2", "t3", "t4" >>

\* 'No content found'
NoContentText == << "No", SP, "content", SP, "found" >>

TagNames == {"p", "figure"}
IdNames == {"", "ad", "ad.top"}
ClassNames == {"top"}

Elements ==
    [ tag : TagNames, id : IdNames, classes : SUBSET ClassNames,
      parent : 0..(MaxNodes - 1) ]

Documents ==
    UNION { { d \in [1..n -> Elements] : \A k \in 1..n : d[k].parent < k }
            : n \in 1..MaxNodes }

\* html_content: None, '', the placeholder, or a document
HtmlInputs ==
    { [none |-> TRUE, text |-> << >>, nodes |-> << >>],
      [none |-> FALSE, text |-> << >>, nodes |-> << >>],
      [none |-> FALSE, text |-> NoContentText, nodes |-> << >>] }
        \cup { [none |-> FALSE, text |-> << >>, nodes |-> d] : d \in Documents }

UnwantedLists ==
    [ ids : SUBSET (IdNames \ {""}), classes : SUBSET ClassNames,
      tags : SUBSET {"figure"} ]

\* variables html_to_markdown never touches
nonMarkdownVars ==
    << cloudVars, storeVars, mainVars, adapterVars, detailVars, rInput, rec >>

RECURSIVE Ancestors(_, _)
Ancestors(nodes, k) ==
    IF nodes[k].parent = 0 THEN {}
    ELSE {nodes[k].parent} \cup Ancestors(nodes, nodes[k].parent)

\* tag.decompose() for every tag of S: the tags and all they contain leave
\* the tree
Decompose(nodes, live, S) ==
    { k \in live : k \notin S /\ Ancestors(nodes, k) \cap S = {} }

\* the selector f'#{id}' as CSS reads it: the identifier behind '#' ends at a
\* '.', and what follows the '.' is a class the element must have as well
CssId(sel) == IF sel = "ad.top" THEN "ad" ELSE sel
CssClasses(sel) == IF sel = "ad.top" THEN {"top"} ELSE {}

\* soup.select(f'#{id}')
SelectId(nodes, live, sel) ==
    { k \in live : /\ nodes[k].id = CssId(sel)
                   /\ CssClasses(sel) \subseteq nodes[k].classes }

\* soup.select(f'.{html_class}')
SelectClass(nodes, live, cls) == { k \in live : cls \in nodes[k].classes }

\* soup.find_all(tag_str)
FindAll(nodes, live, tag) == { k \in live : nodes[k].tag = tag }

\* html.unescape(html_content) and BeautifulSoup(...): None has no `in`
\* test and raises TypeError; otherwise the tree holds every element
html_unescape_parse ==
    /\ hPc = "called"
    /\ IF hArg.none
       THEN hPc' = "raised" /\ UNCHANGED hSoup
       ELSE hPc' = "parsed" /\ hSoup' = 1..Len(hArg.nodes)
    /\ UNCHANGED << hArg, hLists, hText >>
    /\ UNCHANGED nonMarkdownVars

\* `for id in unwanted_ids: for tag in soup.select(f'#{id}'): tag.decompose()`
remove_by_id ==
    /\ hPc = "parsed"
    /\ hSoup' = Decompose(hArg.nodes, hSoup,
                    UNION { SelectId(hArg.nodes, hSoup, sel) : sel \in hLists.ids })
    /\ hPc' = "ids"
    /\ UNCHANGED << hArg, hLists, hText >>
    /\ UNCHANGED nonMarkdownVars

\* `for html_class in unwanted_classes: ... tag.decompose()`
remove_by_class ==
    /\ hPc = "ids"
    /\ hSoup' = Decompose(hArg.nodes, hSoup,
                    UNION { SelectClass(hArg.nodes, hSoup, c) : c \in hLists.classes })
    /\ hPc' = "classes"
    /\ UNCHANGED << hArg, hLists, hText >>
    /\ UNCHANGED nonMarkdownVars

\* `for tag_str in unwanted_tags: ... tag.decompose()`
remove_by_tag ==
    /\ hPc = "classes"
    /\ hSoup' = Decompose(hArg.nodes, hSoup,
                    UNION { FindAll(hArg.nodes, hSoup, t) : t \in hLists.tags })
    /\ hPc' = "tags"
    /\ UNCHANGED << hArg, hLists, hText >>
    /\ UNCHANGED nonMarkdownVars

RECURSIVE Blocks(_, _, _)
\* the texts of the elements left in the tree, each a block of its own
Blocks(nodes, live, k) ==
    IF k > Len(nodes) THEN << >>
    ELSE (IF k \in live THEN << NodeText[k], NL, NL >> ELSE << >>)
             \o Blocks(nodes, live, k + 1)

\* html2md.handle(str(soup)): the text outside elements, then the blocks
html2text_handle ==
    /\ hPc = "tags"
    /\ hText' = (IF hArg.text = << >> THEN << >> ELSE hArg.text \o << NL, NL >>)
                    \o Blocks(hArg.nodes, hSoup, 1)
    /\ hPc' = "converted"
    /\ UNCHANGED << hArg, hLists, hSoup >>
    /\ UNCHANGED nonMarkdownVars

RECURSIVE RunLen(_, _)
\* length of the run of character c at the head of s
RunLen(s, c) ==
    IF s # << >> /\ Head(s) = c THEN 1 + RunLen(Tail(s), c) ELSE 0

Repeat(c, n) == [k \in 1..n |-> c]

RECURSIVE CollapseNewlines(_)
CollapseNewlines_mut(s) == s

\* re.sub(r'\n{3,}', '\n\n', markdown_content)
CollapseNewlines(s) ==
    IF s = << >> THEN << >>
    ELSE IF Head(s) = NL
    THEN LET n == RunLen(s, NL) IN
         Repeat(NL, IF n >= 3 THEN 2 ELSE n)
             \o CollapseNewlines(SubSeq(s, n + 1, Len(s)))
    ELSE << Head(s) >> \o CollapseNewlines(Tail(s))

RECURSIVE CollapseSpaces(_)
\* re.sub(r' +', ' ', markdown_content)
CollapseSpaces(s) ==
    IF s = << >> THEN << >>
    ELSE IF Head(s) = SP
    THEN << SP >> \o CollapseSpaces(SubSeq(s, RunLen(s, SP) + 1, Len(s)))
    ELSE << Head(s) >> \o CollapseSpaces(Tail(s))

RECURSIVE LStrip(_)
LStrip(s) ==
    IF s # << >> /\ Head(s) \in Whitespace THEN LStrip(Tail(s)) ELSE s

RECURSIVE RStrip(_)
RStrip(s) ==
    IF s # << >> /\ s[Len(s)] \in Whitespace
    THEN RStrip(SubSeq(s, 1, Len(s) - 1)) ELSE s

\* markdown_content.strip()
Strip(s) == RStrip(LStrip(s))

collapse_newlines ==
    /\ hPc = "converted"
    /\ hText' = CollapseNewlines(hText)
    /\ hPc' = "newlines"
    /\ UNCHANGED << hArg, hLists, hSoup >>
    /\ UNCHANGED nonMarkdownVars

collapse_spaces ==
    /\ hPc = "newlines"
    /\ hText' = CollapseSpaces(hText)
    /\ hPc' = "spaces"
    /\ UNCHANGED << hArg, hLists, hSoup >>
    /\ UNCHANGED nonMarkdownVars

\* return markdown_content.strip()
strip_return ==
    /\ hPc = "spaces"
    /\ hText' = Strip(hText)
    /\ hPc' = "returned"
    /\ UNCHANGED << hArg, hLists, hSoup >>
    /\ UNCHANGED nonMarkdownVars

\* everything but html_to_markdown at rest
MarkdownRest ==
    /\ rInput = << >> /\ rec = << >>
    /\ loopRunning = FALSE /\ CloudIdle
    /\ storage_instance = None /\ exited = FALSE
    /\ StoreIdle /\ MainIdle /\ AdapterIdle /\ DetailIdle

\* a call of html_to_markdown
InitMarkdown ==
    /\ hPc = "called"
    /\ hArg \in HtmlInputs
    /\ hLists \in UnwantedLists
    /\ hSoup = {}
    /\ hText = << >>
    /\ MarkdownRest

NextMarkdown ==
    \/ html_unescape_parse
    \/ remove_by_id
    \/ remove_by_class
    \/ remove_by_tag
    \/ html2text_handle
    \/ collapse_newlines
    \/ collapse_spaces
    \/ strip_return

SpecMarkdown == InitMarkdown /\ [][NextMarkdown]_vars

RECURSIVE Texts(_)
\* all texts of at most MaxText characters
Texts(n) ==
    IF n = 0 THEN { << >> }
    ELSE Texts(n - 1)
             \cup { Append(t, c) : t \in Texts(n - 1), c \in Whitespace \cup {"a"} }

\* html2text has returned some markdown text: the clean-up behind it
InitClean ==
    /\ hPc = "converted"
    /\ hText \in Texts(MaxText)
    /\ hArg = [none |-> FALSE, text |-> << >>, nodes |-> << >>]
    /\ hLists = [ids |-> {}, classes |-> {}, tags |-> {}]
    /\ hSoup = {}
    /\ MarkdownRest

NextClean ==
    \/ collapse_newlines
    \/ collapse_spaces
    \/ strip_return

SpecClean == InitClean /\ [][NextClean]_vars

\* C26: the text html_to_markdown returns has no three newlines in a row, no
\* two spaces in a row, and neither starts nor ends with whitespace.
C26_OutputClean ==
    hPc = "returned" =>
        /\ \A k \in 1..(Len(hText) - 2) :
               ~(hText[k] = NL /\ hText[k + 1] = NL /\ hText[k + 2] = NL)
        /\ \A k \in 1..(Len(hText) - 1) : ~(hText[k] = SP /\ hText[k + 1] = SP)
        /\ hText # << >> =>
               hText[1] \notin Whitespace /\ hText[Len(hText)] \notin Whitespace

\* the clean-up cut a run of newlines down to two
C26_Witness ==
    /\ hPc = "returned"
    /\ hText = << "a", NL, NL, "a" >>
    /\ hArg.nodes = << >> /\ hLists.ids = {}

\* the element is named by one of the unwanted lists
Unwanted(e) ==
    \/ e.id \in hLists.ids
    \/ e.classes \cap hLists.classes # {}
    \/ e.tag \in hLists.tags

\* the text occurs in the returned markdown
InOutput(t) == \E k \in 1..Len(hText) : hText[k] = t

\* C27 (as claimed): when html_to_markdown has returned, no text of an element
\* whose id, class or tag name is in the unwanted lists, nor of an element
\* inside it, occurs in the output.
C27_UnwantedRemoved ==
    hPc = "returned" =>
        \A k \in 1..Len(hArg.nodes) :
            ( \/ Unwanted(hArg.nodes[k])
              \/ \E a \in Ancestors(hArg.nodes, k) : Unwanted(hArg.nodes[a]) )
            => ~InOutput(NodeText[k])

\* C28 (as claimed): called with None, '' or the placeholder,
\* html_to_markdown does not raise and returns its argument.
C28_SentinelUnchanged ==
    (hArg.nodes = << >> /\ hPc \in {"raised", "returned"}) =>
        /\ hPc = "returned"
        /\ ~hArg.none
        /\ hText = hArg.text

====
